---- MODULE Spec2Model ----
(***************************************************************************)
(* A model of gh-prreview's suggestion applier (pkg/applier/applier.go).   *)
(*                                                                         *)
(* Text is modelled at the byte level: a file's content, a suggestion's    *)
(* text and a line are sequences of characters.  The alphabet is one       *)
(* ordinary character and the line terminator, which is enough to tell     *)
(* lines apart ("", "a", "aa", ...) and to observe strings.Split,          *)
(* strings.Join, strings.TrimSuffix and strings.HasSuffix exactly.         *)
(***************************************************************************)
EXTENDS Naturals, Integers, Sequences, FiniteSets, TLC

VARIABLES
    disk,         \* path -> content of the file in the working tree
    head,         \* path -> committed content (what `git checkout --` restores)
    suggestions,  \* the input list of review comments
    mode,         \* "one" | "all" | "aiauto" | "interactive"
    aiProvider,   \* Applier.aiProvider # nil
    githubClient, \* Applier.githubClient # nil
    pc,           \* "start" | "fetch" | "run" | "done" | "error"
    remaining,    \* ids (positions in suggestions) not yet processed, in order
    applied,      \* the applied counter
    failed,       \* the failed (ApplyInteractive: skipped) counter
    attempted,    \* the ids of the suggestions attempted so far, in order
    last,         \* the most recent attempt: what it read, did and returned
    aiCalls,      \* number of aiProvider.ApplySuggestion calls
    artifacts,    \* diagnostic files written under /tmp, as <<kind, id>>
    resolved,     \* ids whose thread received a successful ResolveThread
    perm,         \* path -> permission bits of the file in the working tree
    tree,         \* what `git status --porcelain` gives: "clean" | "dirty" | "error"
    fetches,      \* number of FetchReviewComments calls
    threads,      \* GitHub: thread id -> the thread is resolved, as the
                  \* resolve and browse commands see and change it
    requests,     \* GitHub: the mutations the resolve command sent, in order
    args,         \* resolve: the positional arguments
    resolveAll,   \* resolve: --all
    resolveUnresolve, \* resolve: --unresolve
    resolveComment,   \* resolve: --comment is given
    stdin,        \* resolve: the lines the user will type
    rpc,          \* resolve: the position in runResolve
    commentID,    \* resolve: runResolve's commentID
    unresolvedComments, \* resolve: the threads resolveAllComments has left
    successCount, \* resolve: resolveAllComments' successCount
    errorCount,   \* resolve: resolveAllComments' errorCount
    prompts,      \* resolve: the questions asked on the terminal, in order
    selectionModel, \* browse: the SelectionModel m
    collapsedFiles, \* browse: runBrowse's collapsedFiles, for the one path
    reviewComments, \* browse: the ReviewComment objects of the client, by
                  \* the fetch that built them: reviewComments[gen][thread]
                  \* is resolved
    cmds,         \* browse: the commands Update returned that have not run yet
    msgs,         \* browse: the messages sent to Update and not yet handled
    editor,       \* browse: the editor process the program waits for
    tmpFiles,     \* browse: the temp files created, by number
    callbacks,    \* browse: the calls of the editor completion callbacks
    hung          \* browse: Update is in a loop that does not end

vars == <<disk, head, suggestions, mode, aiProvider, githubClient, pc,
          remaining, applied, failed, attempted, last, aiCalls, artifacts,
          resolved, perm, tree, fetches, threads, requests, args, resolveAll,
          resolveUnresolve, resolveComment, stdin, rpc, commentID,
          unresolvedComments, successCount, errorCount, prompts,
          selectionModel, collapsedFiles, reviewComments, cmds, msgs,
          editor, tmpFiles, callbacks, hung>>

\* the state of the apply command and its applier
applyVars == <<disk, head, suggestions, mode, aiProvider, githubClient, pc,
               remaining, applied, failed, attempted, last, aiCalls, artifacts,
               resolved, perm, tree>>

\* GitHub's threads and the mutations sent to it
githubVars == <<threads, requests>>

\* the state of the resolve command
resolveVars == <<args, resolveAll, resolveUnresolve, resolveComment, stdin,
                 rpc, commentID, unresolvedComments, successCount, errorCount,
                 prompts>>

\* the resolve command is not run
NoResolveCommand ==
    /\ threads = <<>>
    /\ requests = <<>>
    /\ args = <<>>
    /\ resolveAll = FALSE
    /\ resolveUnresolve = FALSE
    /\ resolveComment = FALSE
    /\ stdin = <<>>
    /\ rpc = "none"
    /\ commentID = 0
    /\ unresolvedComments = <<>>
    /\ successCount = 0
    /\ errorCount = 0
    /\ prompts = <<>>

\* the state of the browse command and its selector
browseVars == <<selectionModel, collapsedFiles, reviewComments, cmds, msgs,
                editor, tmpFiles, callbacks, hung>>

\* the browse command is not run
NoBrowseCommand ==
    /\ selectionModel = <<>>
    /\ collapsedFiles = FALSE
    /\ reviewComments = <<>>
    /\ cmds = <<>>
    /\ msgs = <<>>
    /\ editor = 0
    /\ tmpFiles = <<>>
    /\ callbacks = <<>>
    /\ hung = FALSE

(***************************************************************************)
(* Bounds                                                                  *)
(***************************************************************************)
MaxFileLen == 3       \* characters in the file of a single apply call
MaxSugLen == 2        \* characters in the suggested code of a single call
MaxHunkLines == 2     \* body lines of a hunk of a single apply call
MaxStart == 2         \* largest newStart of a hunk header
MaxRun == 2           \* suggestions in one run of the apply command
MaxRunFileLen == 2    \* characters in the file at the start of a run
MaxRunStart == 2      \* largest newStart of a hunk header in a run
MaxPick == 2          \* suggestions in one interactive run
MaxPickFileLen == 1   \* characters in the file at the start of such a run

NL == "\n"
Chars == {"a", NL}
Paths == {"f"}

RECURSIVE StringsUpTo(_)
StringsUpTo(n) ==
    IF n = 0 THEN {<<>>}
    ELSE LET S == StringsUpTo(n - 1)
         IN  S \cup {Append(s, c) : s \in {t \in S : Len(t) = n - 1}, c \in Chars}

(***************************************************************************)
(* Go's strings package, as applySuggestion uses it                        *)
(***************************************************************************)
\* strings.Split(s, "\n"): always at least one element; "" gives [""]
RECURSIVE Split(_)
Split(s) ==
    IF s = <<>> THEN << <<>> >>
    ELSE LET r == Split(Tail(s))
         IN  IF Head(s) = NL THEN << <<>> >> \o r
             ELSE << <<Head(s)>> \o Head(r) >> \o Tail(r)

\* strings.Join(lines, "\n")
RECURSIVE Join(_)
Join(lines) ==
    IF Len(lines) = 0 THEN <<>>
    ELSE IF Len(lines) = 1 THEN lines[1]
    ELSE lines[1] \o <<NL>> \o Join(Tail(lines))

\* strings.HasSuffix(s, "\n")
HasSuffix(s) == Len(s) > 0 /\ s[Len(s)] = NL

\* strings.TrimSuffix(s, "\n"): removes at most one terminator
TrimSuffix(s) == IF HasSuffix(s) THEN SubSeq(s, 1, Len(s) - 1) ELSE s

(***************************************************************************)
(* pkg/diffhunk.  A hunk is its header and its body lines; hdr is "ok" for *)
(* a header matching @@ -a,b +c,d @@, "malformed" otherwise, and "none"    *)
(* when the comment's DiffHunk is the empty string.                        *)
(***************************************************************************)
Kinds == {"ctx", "add", "rem"}

HunkLine(k, t) == [kind |-> k, text |-> t]

\* diffhunk.GetAddedLines: the text of every Add line, in hunk order
RECURSIVE GetAddedLines(_)
GetAddedLines(h) ==
    IF h.body = <<>> THEN <<>>
    ELSE LET rest == GetAddedLines([h EXCEPT !.body = Tail(h.body)])
         IN  IF Head(h.body).kind = "add" THEN <<Head(h.body).text>> \o rest
             ELSE rest

\* diffhunk.ParseDiffHunk: the body lines with their old/new numbers; 0 is
\* "no number".  The counters start at oldStart/newStart; Remove and Context
\* advance the old one, Add and Context the new one.
\* NumberLines giving an Add line the old counter as well
RECURSIVE NumberLines_AddCarriesOld(_, _, _)
NumberLines_AddCarriesOld(body, old, new) ==
    IF body = <<>> THEN <<>>
    ELSE LET l == Head(body)
         IN  IF l.kind = "add"
             THEN <<[Type |-> "add", Content |-> l.text,
                     OldLineNumber |-> old, NewLineNumber |-> new]>>
                  \o NumberLines_AddCarriesOld(Tail(body), old, new + 1)
             ELSE IF l.kind = "rem"
             THEN <<[Type |-> "rem", Content |-> l.text,
                     OldLineNumber |-> old, NewLineNumber |-> 0]>>
                  \o NumberLines_AddCarriesOld(Tail(body), old + 1, new)
             ELSE <<[Type |-> "ctx", Content |-> l.text,
                     OldLineNumber |-> old, NewLineNumber |-> new]>>
                  \o NumberLines_AddCarriesOld(Tail(body), old + 1, new + 1)

RECURSIVE NumberLines(_, _, _)
NumberLines(body, old, new) ==
    IF body = <<>> THEN <<>>
    ELSE LET l == Head(body)
         IN  IF l.kind = "add"
             THEN <<[Type |-> "add", Content |-> l.text,
                     OldLineNumber |-> 0, NewLineNumber |-> new]>>
                  \o NumberLines(Tail(body), old, new + 1)
             ELSE IF l.kind = "rem"
             THEN <<[Type |-> "rem", Content |-> l.text,
                     OldLineNumber |-> old, NewLineNumber |-> 0]>>
                  \o NumberLines(Tail(body), old + 1, new)
             ELSE <<[Type |-> "ctx", Content |-> l.text,
                     OldLineNumber |-> old, NewLineNumber |-> new]>>
                  \o NumberLines(Tail(body), old + 1, new + 1)

ParseDiffHunk(h) ==
    IF h.hdr = "ok"
    THEN [err |-> FALSE, Lines |-> NumberLines(h.body, h.oldStart, h.newStart)]
    ELSE [err |-> TRUE, Lines |-> <<>>]

\* diffhunk.GetZeroBased
GetZeroBased(n) == n - 1

(***************************************************************************)
(* pkg/applier: findReplacementTarget                                      *)
(***************************************************************************)
\* the comparison loop: fileLines[i+j] = addedLines[j] for every j (i 0-based)
MatchesAt(fileLines, addedLines, i) ==
    \A j \in 0..(Len(addedLines) - 1) : fileLines[i + j + 1] = addedLines[j + 1]

\* FirstAddTarget with the 1-based line number used as the index
FirstAddTarget_OneBased(hunk) ==
    IF hunk.hdr = "none" THEN -1
    ELSE LET parsed == ParseDiffHunk(hunk)
             adds == {k \in 1..Len(parsed.Lines) : parsed.Lines[k].Type = "add"}
         IN  IF parsed.err \/ adds = {} THEN -1
             ELSE LET first == CHOOSE k \in adds : \A m \in adds : k <= m
                  IN  parsed.Lines[first].NewLineNumber

\* Strategy 1: the 0-based new-file position of the first Add line, or -1
FirstAddTarget(hunk) ==
    IF hunk.hdr = "none" THEN -1
    ELSE LET parsed == ParseDiffHunk(hunk)
             adds == {k \in 1..Len(parsed.Lines) : parsed.Lines[k].Type = "add"}
         IN  IF parsed.err \/ adds = {} THEN -1
             ELSE LET first == CHOOSE k \in adds : \A m \in adds : k <= m
                  IN  GetZeroBased(parsed.Lines[first].NewLineNumber)

\* verification of the Strategy 1 position
Strategy1Valid(targetLine, fileLines, addedLines) ==
    /\ targetLine # -1
    /\ targetLine + Len(addedLines) <= Len(fileLines)
    /\ MatchesAt(fileLines, addedLines, targetLine)

\* ContentSearch with matchStart initialised to 0 instead of -1
ContentSearch_Zero(fileLines, addedLines) ==
    LET hits == {i \in 0..(Len(fileLines) - Len(addedLines)) :
                    MatchesAt(fileLines, addedLines, i)}
    IN  IF hits = {} THEN 0
        ELSE CHOOSE i \in hits : \A k \in hits : i <= k

\* ContentSearch without the break: the last match wins
ContentSearch_Last(fileLines, addedLines) ==
    LET hits == {i \in 0..(Len(fileLines) - Len(addedLines)) :
                    MatchesAt(fileLines, addedLines, i)}
    IN  IF hits = {} THEN -1
        ELSE CHOOSE i \in hits : \A k \in hits : i >= k

\* Strategy 2: the first i in 0..len(fileLines)-len(addedLines) that matches,
\* or -1
ContentSearch(fileLines, addedLines) ==
    LET hits == {i \in 0..(Len(fileLines) - Len(addedLines)) :
                    MatchesAt(fileLines, addedLines, i)}
    IN  IF hits = {} THEN -1
        ELSE CHOOSE i \in hits : \A k \in hits : i <= k

\* the final verification: 0 when every line matches, else the 1-based file
\* line of the first mismatch
FinalVerify(targetLine, fileLines, addedLines) ==
    LET bad == {j \in 0..(Len(addedLines) - 1) :
                   fileLines[targetLine + j + 1] # addedLines[j + 1]}
    IN  IF bad = {} THEN 0
        ELSE targetLine + (CHOOSE j \in bad : \A k \in bad : j <= k) + 1

Outcome(e, t, n, s) == [err |-> e, target |-> t, removeCount |-> n, strategy |-> s]

\* findReplacementTarget trusting the mapped position: no verification of
\* Strategy 1 and no final verification
findReplacementTarget_TrustPosition(comment, fileLines) ==
    LET locate(addedLines, pos, matchStart) ==
            IF Len(addedLines) = 0 THEN Outcome("NoAddedLines", -1, 0, "none")
            ELSE IF pos # -1 /\ pos + Len(addedLines) <= Len(fileLines)
            THEN Outcome("none", pos, Len(addedLines), "position")
            ELSE IF matchStart = -1 THEN Outcome("NotFound", -1, 0, "none")
            ELSE Outcome("none", matchStart, Len(addedLines), "content")
    IN  locate(GetAddedLines(comment.DiffHunk),
               FirstAddTarget(comment.DiffHunk),
               ContentSearch(fileLines, GetAddedLines(comment.DiffHunk)))

\* findReplacementTarget without the len(addedLines) == 0 return
findReplacementTarget_NoEmptyCheck(comment, fileLines) ==
    LET \* the final verification and the result
        verify(addedLines, targetLine, strategy) ==
            IF targetLine >= 0 /\ targetLine + Len(addedLines) <= Len(fileLines)
            THEN IF FinalVerify(targetLine, fileLines, addedLines) # 0
                 THEN Outcome("ContentMismatch", -1, 0, strategy)
                 ELSE Outcome("none", targetLine, Len(addedLines), strategy)
            ELSE Outcome("OutOfBounds", -1, 0, strategy)
        locate(addedLines, pos, strategy1Valid, matchStart) ==
            IF ~strategy1Valid /\ matchStart = -1
            THEN Outcome("NotFound", -1, 0, "none")
            ELSE verify(addedLines,
                        IF strategy1Valid THEN pos ELSE matchStart,
                        IF strategy1Valid THEN "position" ELSE "content")
    IN  locate(GetAddedLines(comment.DiffHunk),
               FirstAddTarget(comment.DiffHunk),
               Strategy1Valid(FirstAddTarget(comment.DiffHunk), fileLines,
                              GetAddedLines(comment.DiffHunk)),
               ContentSearch(fileLines, GetAddedLines(comment.DiffHunk)))

\* findReplacementTarget returning at a header that does not parse, instead
\* of going on to Strategy 2
findReplacementTarget_AbortOnParseError(comment, fileLines) ==
    LET verify(addedLines, targetLine, strategy) ==
            IF targetLine >= 0 /\ targetLine + Len(addedLines) <= Len(fileLines)
            THEN IF FinalVerify(targetLine, fileLines, addedLines) # 0
                 THEN Outcome("ContentMismatch", -1, 0, strategy)
                 ELSE Outcome("none", targetLine, Len(addedLines), strategy)
            ELSE Outcome("OutOfBounds", -1, 0, strategy)
        locate(addedLines, pos, strategy1Valid, matchStart) ==
            IF Len(addedLines) = 0 THEN Outcome("NoAddedLines", -1, 0, "none")
            ELSE IF comment.DiffHunk.hdr = "malformed"
            THEN Outcome("ParseError", -1, 0, "none")
            ELSE IF ~strategy1Valid /\ matchStart = -1
            THEN Outcome("NotFound", -1, 0, "none")
            ELSE verify(addedLines,
                        IF strategy1Valid THEN pos ELSE matchStart,
                        IF strategy1Valid THEN "position" ELSE "content")
    IN  locate(GetAddedLines(comment.DiffHunk),
               FirstAddTarget(comment.DiffHunk),
               Strategy1Valid(FirstAddTarget(comment.DiffHunk), fileLines,
                              GetAddedLines(comment.DiffHunk)),
               ContentSearch(fileLines, GetAddedLines(comment.DiffHunk)))

\* findReplacementTarget refusing a comment flagged as outdated
findReplacementTarget_SkipOutdated(comment, fileLines) ==
    LET verify(addedLines, targetLine, strategy) ==
            IF targetLine >= 0 /\ targetLine + Len(addedLines) <= Len(fileLines)
            THEN IF FinalVerify(targetLine, fileLines, addedLines) # 0
                 THEN Outcome("ContentMismatch", -1, 0, strategy)
                 ELSE Outcome("none", targetLine, Len(addedLines), strategy)
            ELSE Outcome("OutOfBounds", -1, 0, strategy)
        locate(addedLines, pos, strategy1Valid, matchStart) ==
            IF Len(addedLines) = 0 THEN Outcome("NoAddedLines", -1, 0, "none")
            ELSE IF comment.IsOutdated THEN Outcome("NotFound", -1, 0, "none")
            ELSE IF ~strategy1Valid /\ matchStart = -1
            THEN Outcome("NotFound", -1, 0, "none")
            ELSE verify(addedLines,
                        IF strategy1Valid THEN pos ELSE matchStart,
                        IF strategy1Valid THEN "position" ELSE "content")
    IN  locate(GetAddedLines(comment.DiffHunk),
               FirstAddTarget(comment.DiffHunk),
               Strategy1Valid(FirstAddTarget(comment.DiffHunk), fileLines,
                              GetAddedLines(comment.DiffHunk)),
               ContentSearch(fileLines, GetAddedLines(comment.DiffHunk)))

findReplacementTarget(comment, fileLines) ==
    LET \* the final verification and the result
        verify(addedLines, targetLine, strategy) ==
            IF targetLine >= 0 /\ targetLine + Len(addedLines) <= Len(fileLines)
            THEN IF FinalVerify(targetLine, fileLines, addedLines) # 0
                 THEN Outcome("ContentMismatch", -1, 0, strategy)
                 ELSE Outcome("none", targetLine, Len(addedLines), strategy)
            ELSE Outcome("OutOfBounds", -1, 0, strategy)
        \* the empty check, then Strategy 1 and, when it is not valid,
        \* Strategy 2
        locate(addedLines, pos, strategy1Valid, matchStart) ==
            IF Len(addedLines) = 0 THEN Outcome("NoAddedLines", -1, 0, "none")
            ELSE IF ~strategy1Valid /\ matchStart = -1
            THEN Outcome("NotFound", -1, 0, "none")
            ELSE verify(addedLines,
                        IF strategy1Valid THEN pos ELSE matchStart,
                        IF strategy1Valid THEN "position" ELSE "content")
    IN  locate(GetAddedLines(comment.DiffHunk),
               FirstAddTarget(comment.DiffHunk),
               Strategy1Valid(FirstAddTarget(comment.DiffHunk), fileLines,
                              GetAddedLines(comment.DiffHunk)),
               ContentSearch(fileLines, GetAddedLines(comment.DiffHunk)))

(***************************************************************************)
(* pkg/applier: applySuggestion, from the content it read to the content   *)
(* it hands to os.WriteFile                                                *)
(***************************************************************************)
\* applySuggestion without the strings.TrimSuffix of the suggested code
applySuggestion_NoTrim(comment, fileContent) ==
    LET terminate(joined) ==
            IF HasSuffix(fileContent) /\ ~HasSuffix(joined)
            THEN joined \o <<NL>> ELSE joined
        replace(fileLines, found, suggestionLines) ==
            IF found.err # "none"
            THEN [err |-> found.err, target |-> -1, strategy |-> found.strategy,
                  newContent |-> fileContent]
            ELSE [err |-> "none", target |-> found.target,
                  strategy |-> found.strategy,
                  newContent |->
                    terminate(Join(
                      SubSeq(fileLines, 1, found.target) \o suggestionLines \o
                      (IF found.target + found.removeCount < Len(fileLines)
                       THEN SubSeq(fileLines,
                                   found.target + found.removeCount + 1,
                                   Len(fileLines))
                       ELSE <<>>)))]
    IN  replace(Split(fileContent),
                findReplacementTarget(comment, Split(fileContent)),
                Split(comment.SuggestedCode))

\* applySuggestion without the restoring of the trailing terminator
applySuggestion_NoTerminator(comment, fileContent) ==
    LET replace(fileLines, found, suggestionLines) ==
            IF found.err # "none"
            THEN [err |-> found.err, target |-> -1, strategy |-> found.strategy,
                  newContent |-> fileContent]
            ELSE [err |-> "none", target |-> found.target,
                  strategy |-> found.strategy,
                  newContent |->
                    Join(
                      SubSeq(fileLines, 1, found.target) \o suggestionLines \o
                      (IF found.target + found.removeCount < Len(fileLines)
                       THEN SubSeq(fileLines,
                                   found.target + found.removeCount + 1,
                                   Len(fileLines))
                       ELSE <<>>))]
    IN  replace(Split(fileContent),
                findReplacementTarget(comment, Split(fileContent)),
                Split(TrimSuffix(comment.SuggestedCode)))

applySuggestion(comment, fileContent) ==
    LET \* "Preserve trailing newline if the original file had one"
        terminate(joined) ==
            IF HasSuffix(fileContent) /\ ~HasSuffix(joined)
            THEN joined \o <<NL>> ELSE joined
        \* fileLines[:targetLine] + suggestionLines +
        \* fileLines[targetLine+removeCount:], joined and written
        replace(fileLines, found, suggestionLines) ==
            IF found.err # "none"
            THEN [err |-> found.err, target |-> -1, strategy |-> found.strategy,
                  newContent |-> fileContent]
            ELSE [err |-> "none", target |-> found.target,
                  strategy |-> found.strategy,
                  newContent |->
                    terminate(Join(
                      SubSeq(fileLines, 1, found.target) \o suggestionLines \o
                      (IF found.target + found.removeCount < Len(fileLines)
                       THEN SubSeq(fileLines,
                                   found.target + found.removeCount + 1,
                                   Len(fileLines))
                       ELSE <<>>)))]
    IN  replace(Split(fileContent),
                findReplacementTarget(comment, Split(fileContent)),
                Split(TrimSuffix(comment.SuggestedCode)))

(***************************************************************************)
(* Inputs                                                                  *)
(***************************************************************************)
RECURSIVE SeqsUpTo(_, _)
SeqsUpTo(S, n) ==
    IF n = 0 THEN {<<>>}
    ELSE LET T == SeqsUpTo(S, n - 1)
         IN  T \cup {Append(t, x) : t \in {u \in T : Len(u) = n - 1}, x \in S}

\* the text of a hunk line: no terminator inside a line
HunkTexts == {<<>>, <<"a">>}

\* the applier reads the text of Add lines only; Context and Remove lines
\* count for the numbering
HunkLines ==
    {HunkLine("add", t) : t \in HunkTexts}
    \cup {HunkLine(k, <<>>) : k \in Kinds \ {"add"}}

NoHunk == [hdr |-> "none", oldStart |-> 0, newStart |-> 0, body |-> <<>>]

Hunks(maxLines, maxStart) ==
    {[hdr |-> "ok", oldStart |-> 1, newStart |-> s, body |-> b] :
        s \in 1..maxStart, b \in SeqsUpTo(HunkLines, maxLines)}
    \cup {[hdr |-> "malformed", oldStart |-> 0, newStart |-> 0, body |-> b] :
        b \in SeqsUpTo(HunkLines, maxLines)}
    \cup {NoHunk}

\* FetchReviewComments sets HasSuggestion only for a non-empty suggestion, and
\* runApply keeps only comments with HasSuggestion
SuggestedCodes(maxLen) == StringsUpTo(maxLen) \ {<<>>}

Comment(p, h, code, thread, isResolved) ==
    [Path |-> p, DiffHunk |-> h, SuggestedCode |-> code,
     ThreadID |-> thread, IsResolved |-> isResolved]

\* the inputs of a run of several suggestions: a hunk is one Add line at a
\* position; the suggested code is one line or two
RunContents == StringsUpTo(MaxRunFileLen)

RunHunks ==
    {[hdr |-> "ok", oldStart |-> 1, newStart |-> s,
      body |-> <<HunkLine("add", t)>>] : s \in 1..MaxRunStart, t \in HunkTexts}

RunCodes == {<<"a">>, <<NL, NL>>}

RunComments ==
    {Comment(p, h, code, TRUE, FALSE) :
        p \in Paths, h \in RunHunks, code \in RunCodes}

\* applyWithAI hands the suggestion to the provider and never matches it
\* against the file itself: one suggestion stands for all of them
AIComments ==
    {Comment(p, NoHunk, <<"a">>, TRUE, FALSE) : p \in Paths}

\* the contents a patch of the provider may produce in a batch
PatchResults == {<<>>, <<"a", NL>>}

\* the inputs of an interactive run
PickContents == StringsUpTo(MaxPickFileLen)

PickComments ==
    {Comment(p, [hdr |-> "ok", oldStart |-> 1, newStart |-> 1,
                 body |-> <<HunkLine("add", t)>>], <<"a", "a">>, TRUE, FALSE) :
        p \in Paths, t \in HunkTexts}

(***************************************************************************)
(* File system                                                             *)
(***************************************************************************)
\* os.WriteFile truncates, then writes: it succeeds, fails before touching
\* the file, or fails after writing a proper prefix of the data
WriteResults(old, data) ==
    {[ok |-> TRUE, content |-> data]}
    \cup {[ok |-> FALSE, content |-> old]}
    \cup {[ok |-> FALSE, content |-> SubSeq(data, 1, k)] : k \in 0..(Len(data) - 1)}

\* the permission bits applySuggestion passes to os.WriteFile: 0644
DefaultMode == 420

\* 0644 and 0755
Modes == {DefaultMode, 493}

\* the bits of the file after a write that replaces the file by a new one
\* created with the requested bits
WriteFileMode_Recreate(old, requested) == requested

\* the bits of the file after os.WriteFile(name, data, requested) on a file
\* that exists: it is opened with O_WRONLY|O_CREATE|O_TRUNC, and the
\* requested bits are given only to a file the call creates
WriteFileMode(old, requested) == old

Attempt(e, t, s, c, art, calls, runs) ==
    [err |-> e, target |-> t, strategy |-> s, content |-> c, artifact |-> art,
     calls |-> calls, patchRuns |-> runs]

\* DirectAttempts matching against the content the run started with, as a
\* cache filled before the first suggestion would
DirectAttempts_Cached(comment) ==
    LET outcomes(fileContent, r) ==
            {Attempt("ReadError", -1, "none", fileContent, FALSE, 0, 0)}
            \cup (IF r.err = "ContentMismatch"
                  THEN {Attempt(r.err, -1, r.strategy, fileContent, art, 0, 0) :
                           art \in BOOLEAN}
                  ELSE IF r.err # "none"
                  THEN {Attempt(r.err, -1, r.strategy, fileContent, FALSE, 0, 0)}
                  ELSE {Attempt(IF w.ok THEN "none" ELSE "WriteError", r.target,
                                r.strategy, w.content, FALSE, 0, 0) :
                           w \in WriteResults(fileContent, r.newContent)})
    IN  outcomes(disk[comment.Path],
                 applySuggestion(comment, head[comment.Path]))

\* one call of applySuggestion on the working tree: the error kind it
\* returns, the content it leaves in comment.Path, and whether
\* saveMismatchDiff left its file
DirectAttempts(comment) ==
    LET outcomes(fileContent, r) ==
            {Attempt("ReadError", -1, "none", fileContent, FALSE, 0, 0)}
            \cup (IF r.err = "ContentMismatch"
                  THEN {Attempt(r.err, -1, r.strategy, fileContent, art, 0, 0) :
                           art \in BOOLEAN}
                  ELSE IF r.err # "none"
                  THEN {Attempt(r.err, -1, r.strategy, fileContent, FALSE, 0, 0)}
                  ELSE {Attempt(IF w.ok THEN "none" ELSE "WriteError", r.target,
                                r.strategy, w.content, FALSE, 0, 0) :
                           w \in WriteResults(fileContent, r.newContent)})
    IN  outcomes(disk[comment.Path],
                 applySuggestion(comment, disk[comment.Path]))

(***************************************************************************)
(* applyWithAI and applyPatchAndEditFile                                   *)
(***************************************************************************)
\* what the provider returns: whether `git apply` accepts the patch against
\* the working tree, and the content of comment.Path it produces
Patches(contents) == [applies : BOOLEAN, result : contents]

\* `git checkout -- filePath`: restores the committed content, or fails
Reverts(path, current, e) ==
    {[err |-> e, content |-> head[path]],
     [err |-> "RevertFailed", content |-> current]}

AIAttempts(comment, autoApply, contents) ==
    LET fileContent == disk[comment.Path]
        ai(e, c, calls, runs, art) == Attempt(e, -1, "none", c, art, calls, runs)
        \* exec git apply --unidiff-zero, and the patch file when it fails
        gitApply(patch, runs) ==
            IF patch.applies
            THEN {ai("none", patch.result, 1, runs, FALSE)}
            ELSE {ai("PatchApplyError", fileContent, 1, runs, art) :
                     art \in BOOLEAN}
        \* applyPatchAndEditFile
        edit(patch) ==
            IF ~patch.applies
            THEN gitApply(patch, 2)
                 \cup {ai("Cancelled", fileContent, 1, 1, FALSE)}
            ELSE UNION {
                   {ai("EditApplied", edited, 1, 1, FALSE)}
                   \cup {ai(r.err, r.content, 1, 1, FALSE) :
                           r \in Reverts(comment.Path, edited, "EditorFailed")
                                 \cup Reverts(comment.Path, edited, "Discarded")
                                 \cup Reverts(comment.Path, edited, "InputError")}
                   : edited \in contents \cup {patch.result}}
        confirm(patch) ==
            IF autoApply THEN gitApply(patch, 1)
            ELSE gitApply(patch, 1)
                 \cup {ai("Cancelled", fileContent, 1, 0, FALSE),
                       ai("InputError", fileContent, 1, 0, FALSE)}
                 \cup edit(patch)
    IN  {ai("ReadError", fileContent, 0, 0, FALSE),
         ai("ProviderError", fileContent, 1, 0, FALSE)}
        \cup UNION {confirm(patch) : patch \in Patches(contents)}

\* the outcomes that count as applied
Succeeded(e) == e \in {"none", "EditApplied"}

\* githubClient.ResolveThread behind its guard: the thread ends up resolved
\* or not.  ask is TRUE when the user is prompted first (promptToResolveThread)
Resolutions(id, ask) ==
    IF githubClient /\ suggestions[id].ThreadID /\ ~suggestions[id].IsResolved
    THEN {[called |-> TRUE, ok |-> TRUE], [called |-> TRUE, ok |-> FALSE]}
         \cup (IF ask THEN {[called |-> FALSE, ok |-> FALSE]} ELSE {})
    ELSE {[called |-> FALSE, ok |-> FALSE]}

NoResolution == [called |-> FALSE, ok |-> FALSE]

\* whether the returned error names a diagnostic file: the content-mismatch
\* error names it only when saveMismatchDiff returned its path; the
\* patch-apply error of applyWithAI always carries "(saved to <patchFile>)"
ErrorNamesPath(via, a) ==
    IF via = "ai" THEN a.err = "PatchApplyError"
    ELSE a.err = "ContentMismatch" /\ a.artifact

LogEntry(id, via, a, res) ==
    [id |-> id, via |-> via, err |-> a.err, target |-> a.target,
     strategy |-> a.strategy, read |-> disk[suggestions[id].Path],
     after |-> a.content, calls |-> a.calls, patchRuns |-> a.patchRuns,
     resolveCalled |-> res.called, pathNamed |-> ErrorNamesPath(via, a)]

NoAttempt ==
    [id |-> 0, via |-> "none", err |-> "none", target |-> -1,
     strategy |-> "none", read |-> <<>>, after |-> <<>>, calls |-> 0,
     patchRuns |-> 0, resolveCalled |-> FALSE, pathNamed |-> FALSE]

\* Record counting a suggestion as applied only when its thread, if
\* ResolveThread was called for it, was resolved
Record_ResolveRequired(id, via, a, res) ==
    /\ disk' = [disk EXCEPT ![suggestions[id].Path] = a.content]
    /\ attempted' = Append(attempted, id)
    /\ last' = LogEntry(id, via, a, res)
    /\ aiCalls' = aiCalls + a.calls
    /\ artifacts' = IF a.artifact
                    THEN artifacts \cup
                           {<<IF via = "ai" THEN "ai-patch" ELSE "mismatch", id>>}
                    ELSE artifacts
    /\ resolved' = IF res.ok THEN resolved \cup {id} ELSE resolved
    /\ perm' = IF via = "direct" /\ a.err \in {"none", "WriteError"}
               THEN [perm EXCEPT ![suggestions[id].Path] =
                                    WriteFileMode(@, DefaultMode)]
               ELSE perm
    /\ IF Succeeded(a.err) /\ (res.called => res.ok)
       THEN applied' = applied + 1 /\ failed' = failed
       ELSE failed' = failed + 1 /\ applied' = applied


\* the state after one attempt on suggestion id
Record(id, via, a, res) ==
    /\ disk' = [disk EXCEPT ![suggestions[id].Path] = a.content]
    /\ attempted' = Append(attempted, id)
    /\ last' = LogEntry(id, via, a, res)
    /\ aiCalls' = aiCalls + a.calls
    /\ artifacts' = IF a.artifact
                    THEN artifacts \cup
                           {<<IF via = "ai" THEN "ai-patch" ELSE "mismatch", id>>}
                    ELSE artifacts
    /\ resolved' = IF res.ok THEN resolved \cup {id} ELSE resolved
    /\ perm' = IF via = "direct" /\ a.err \in {"none", "WriteError"}
               THEN [perm EXCEPT ![suggestions[id].Path] =
                                    WriteFileMode(@, DefaultMode)]
               ELSE perm
    /\ IF Succeeded(a.err)
       THEN applied' = applied + 1 /\ failed' = failed
       ELSE failed' = failed + 1 /\ applied' = applied

\* the loop ends when nothing is left
Continue(left) ==
    /\ remaining' = left
    /\ pc' = IF left = <<>> THEN "done" ELSE "run"

Without(ids, id) == SelectSeq(ids, LAMBDA x : x # id)

(***************************************************************************)
(* ApplyAll returning at the first failure                                 *)
(***************************************************************************)
ApplyAllStep_Abort ==
    /\ mode = "all"
    /\ pc = "run"
    /\ remaining # <<>>
    /\ \E a \in DirectAttempts(suggestions[Head(remaining)]) :
          /\ Record(Head(remaining), "direct", a, NoResolution)
          /\ remaining' = Tail(remaining)
          /\ pc' = IF Tail(remaining) = <<>> \/ a.err # "none"
                   THEN "done" ELSE "run"
    /\ UNCHANGED <<head, suggestions, mode, aiProvider, githubClient, tree,
                   fetches, githubVars,
                   resolveVars, browseVars>>

(***************************************************************************)
(* ApplyAll: one iteration of its loop                                     *)
(***************************************************************************)
ApplyAllStep ==
    /\ mode = "all"
    /\ pc = "run"
    /\ remaining # <<>>
    /\ \E a \in DirectAttempts(suggestions[Head(remaining)]) :
          Record(Head(remaining), "direct", a, NoResolution)
    /\ Continue(Tail(remaining))
    /\ UNCHANGED <<head, suggestions, mode, aiProvider, githubClient, tree,
                   fetches, githubVars,
                   resolveVars, browseVars>>

(***************************************************************************)
(* ApplyAllWithAI                                                          *)
(***************************************************************************)
\* the guard at its top: no provider, no batch
ApplyAllWithAINoProvider ==
    /\ mode = "aiauto"
    /\ pc = "run"
    /\ ~aiProvider
    /\ pc' = "error"
    /\ UNCHANGED <<disk, head, suggestions, mode, aiProvider, githubClient,
                   remaining, applied, failed, attempted, last, aiCalls,
                   artifacts, resolved, perm, tree, fetches, githubVars,
                   resolveVars, browseVars>>

\* ApplyAllWithAIStep keeping a failed suggestion at the head of the list, so
\* that the next iteration tries it again
ApplyAllWithAIStep_Retry ==
    /\ mode = "aiauto"
    /\ pc = "run"
    /\ aiProvider
    /\ remaining # <<>>
    /\ \E a \in AIAttempts(suggestions[Head(remaining)], TRUE, PatchResults) :
          /\ \E res \in IF a.err = "none"
                        THEN Resolutions(Head(remaining), FALSE)
                        ELSE {NoResolution} :
                Record(Head(remaining), "ai", a, res)
          /\ Continue(IF a.err = "none" \/ Len(attempted) >= MaxRun
                      THEN Tail(remaining) ELSE remaining)
    /\ UNCHANGED <<head, suggestions, mode, aiProvider, githubClient, tree,
                   fetches, githubVars,
                   resolveVars, browseVars>>


\* one iteration of its loop
ApplyAllWithAIStep ==
    /\ mode = "aiauto"
    /\ pc = "run"
    /\ aiProvider
    /\ remaining # <<>>
    /\ \E a \in AIAttempts(suggestions[Head(remaining)], TRUE, PatchResults) :
          \E res \in IF a.err = "none" THEN Resolutions(Head(remaining), FALSE)
                     ELSE {NoResolution} :
             Record(Head(remaining), "ai", a, res)
    /\ Continue(Tail(remaining))
    /\ UNCHANGED <<head, suggestions, mode, aiProvider, githubClient, tree,
                   fetches, githubVars,
                   resolveVars, browseVars>>

(***************************************************************************)
(* ApplyInteractive: one iteration of its loop, by the user's answer       *)
(***************************************************************************)
Selectable == {remaining[k] : k \in 1..Len(remaining)}

\* ui.SelectFromList returns an error: the loop breaks
InteractiveCancel ==
    /\ mode = "interactive"
    /\ pc = "run"
    /\ pc' = "done"
    /\ UNCHANGED <<disk, head, suggestions, mode, aiProvider, githubClient,
                   remaining, applied, failed, attempted, last, aiCalls,
                   artifacts, resolved, perm, tree, fetches, githubVars,
                   resolveVars, browseVars>>

InteractiveApply ==
    /\ mode = "interactive"
    /\ pc = "run"
    /\ \E id \in Selectable :
          /\ \E a \in DirectAttempts(suggestions[id]) :
                \E res \in IF a.err = "none" THEN Resolutions(id, TRUE)
                           ELSE {NoResolution} :
                   Record(id, "direct", a, res)
          /\ Continue(Without(remaining, id))
    /\ UNCHANGED <<head, suggestions, mode, aiProvider, githubClient, tree,
                   fetches, githubVars,
                   resolveVars, browseVars>>

\* promptForAction offers "ai" only with a provider
InteractiveAI ==
    /\ mode = "interactive"
    /\ pc = "run"
    /\ aiProvider
    /\ \E id \in Selectable :
          /\ \E a \in AIAttempts(suggestions[id], FALSE, PickContents) :
                \E res \in IF Succeeded(a.err) THEN Resolutions(id, TRUE)
                           ELSE {NoResolution} :
                   Record(id, "ai", a, res)
          /\ Continue(Without(remaining, id))
    /\ UNCHANGED <<head, suggestions, mode, aiProvider, githubClient, tree,
                   fetches, githubVars,
                   resolveVars, browseVars>>

InteractiveSkip ==
    /\ mode = "interactive"
    /\ pc = "run"
    /\ \E id \in Selectable : Continue(Without(remaining, id))
    /\ failed' = failed + 1
    /\ UNCHANGED <<disk, head, suggestions, mode, aiProvider, githubClient,
                   applied, attempted, last, aiCalls, artifacts, resolved,
                   perm, tree, fetches, githubVars,
                   resolveVars, browseVars>>

\* "quit" returns at once, after a suggestion was selected
InteractiveQuit ==
    /\ mode = "interactive"
    /\ pc = "run"
    /\ remaining # <<>>
    /\ pc' = "quit"
    /\ UNCHANGED <<disk, head, suggestions, mode, aiProvider, githubClient,
                   remaining, applied, failed, attempted, last, aiCalls,
                   artifacts, resolved, perm, tree, fetches, githubVars,
                   resolveVars, browseVars>>

(***************************************************************************)
(* A single suggestion applied by `apply --all`                            *)
(***************************************************************************)
InitApply ==
    /\ disk \in [Paths -> StringsUpTo(MaxFileLen)]
    /\ head = disk
    /\ suggestions \in
         {<<Comment(p, h, code, FALSE, FALSE)>> :
            p \in Paths, h \in Hunks(MaxHunkLines, MaxStart),
            code \in SuggestedCodes(MaxSugLen)}
    /\ mode = "all"
    /\ aiProvider = FALSE
    /\ githubClient = TRUE
    /\ pc = "run"
    /\ remaining = <<1>>
    /\ applied = 0
    /\ failed = 0
    /\ attempted = <<>>
    /\ last = NoAttempt
    /\ aiCalls = 0
    /\ artifacts = {}
    /\ resolved = {}
    /\ perm = [p \in Paths |-> DefaultMode]
    /\ tree = "clean"
    /\ fetches = 1
    /\ NoResolveCommand
    /\ NoBrowseCommand

NextApply == ApplyAllStep

SpecApply == InitApply /\ [][NextApply]_vars

(***************************************************************************)
(* A batch over several suggestions: `apply --all` and `apply --ai-auto`.  *)
(* runApply starts from a clean working tree, always sets the GitHub       *)
(* client, and sets no AI provider for --all.                              *)
(***************************************************************************)
InitRun(modes, contents, lists) ==
    /\ disk \in [Paths -> contents]
    /\ head = disk
    /\ suggestions \in lists
    /\ mode \in modes
    /\ aiProvider \in BOOLEAN
    /\ mode = "all" => ~aiProvider
    /\ githubClient = TRUE
    /\ pc = "run"
    /\ remaining = [k \in 1..Len(suggestions) |-> k]
    /\ applied = 0
    /\ failed = 0
    /\ attempted = <<>>
    /\ last = NoAttempt
    /\ aiCalls = 0
    /\ artifacts = {}
    /\ resolved = {}
    /\ perm = [p \in Paths |-> DefaultMode]
    /\ tree = "clean"
    /\ fetches = 1
    /\ NoResolveCommand
    /\ NoBrowseCommand

InitBatch ==
    \/ InitRun({"all"}, RunContents, SeqsUpTo(RunComments, MaxRun) \ {<<>>})
    \/ InitRun({"aiauto"}, RunContents, SeqsUpTo(AIComments, MaxRun) \ {<<>>})

NextBatch ==
    \/ ApplyAllStep
    \/ ApplyAllWithAINoProvider
    \/ ApplyAllWithAIStep

SpecBatch == InitBatch /\ [][NextBatch]_vars

(***************************************************************************)
(* An interactive run                                                      *)
(***************************************************************************)
InitInteractive ==
    InitRun({"interactive"}, PickContents,
            SeqsUpTo(PickComments, MaxPick) \ {<<>>})

NextInteractive ==
    \/ InteractiveCancel
    \/ InteractiveApply
    \/ InteractiveAI
    \/ InteractiveSkip
    \/ InteractiveQuit

SpecInteractive == InitInteractive /\ [][NextInteractive]_vars

(***************************************************************************)
(* One suggestion in every mode, with and without a GitHub client, a       *)
(* thread id and a resolved thread, outdated or not.  runApply always sets *)
(* the client; the Applier built by New() alone has none.  A resolved      *)
(* thread reaches the Applier with --include-resolved.                     *)
(***************************************************************************)
\* a comment with the IsOutdated flag FetchReviewComments computed for it
WithOutdated(c, isOutdated) ==
    [Path |-> c.Path, DiffHunk |-> c.DiffHunk, SuggestedCode |-> c.SuggestedCode,
     ThreadID |-> c.ThreadID, IsResolved |-> c.IsResolved,
     IsOutdated |-> isOutdated]

SingleComments ==
    {WithOutdated(Comment(c.Path, c.DiffHunk, c.SuggestedCode, thread,
                          isResolved), isOutdated) :
        c \in PickComments, thread \in BOOLEAN, isResolved \in BOOLEAN,
        isOutdated \in BOOLEAN}

InitSingle ==
    /\ disk \in [Paths -> PickContents]
    /\ head = disk
    /\ suggestions \in {<<c>> : c \in SingleComments}
    /\ mode \in {"all", "aiauto", "interactive"}
    /\ aiProvider \in BOOLEAN
    /\ mode = "all" => ~aiProvider
    /\ githubClient \in BOOLEAN
    /\ pc = "run"
    /\ remaining = <<1>>
    /\ applied = 0
    /\ failed = 0
    /\ attempted = <<>>
    /\ last = NoAttempt
    /\ aiCalls = 0
    /\ artifacts = {}
    /\ resolved = {}
    /\ perm \in [Paths -> Modes]
    /\ tree = "clean"
    /\ fetches = 1
    /\ NoResolveCommand
    /\ NoBrowseCommand

NextSingle ==
    \/ ApplyAllStep
    \/ ApplyAllWithAINoProvider
    \/ ApplyAllWithAIStep
    \/ InteractiveCancel
    \/ InteractiveApply
    \/ InteractiveAI
    \/ InteractiveSkip
    \/ InteractiveQuit

SpecSingle == InitSingle /\ [][NextSingle]_vars

(***************************************************************************)
(* The apply command: runApply (cmd/apply.go) checks the working tree,     *)
(* fetches the review comments, keeps the unresolved suggestions, sets up  *)
(* the applier and enters one of its three loops.                          *)
(***************************************************************************)
\* raw.Side as the API gives it
Sides == {"LEFT", "RIGHT", ""}

\* "Determine diff side": Right unless the API says LEFT
DiffSideOf(side) == IF side = "LEFT" THEN "Left" ELSE "Right"

\* diffposition.CalculateCommentPosition: the hunk is parsed; the comment is
\* outdated when the header's range of the side, start..start+count-1, does
\* not cover the line of the side (line on Right, originalLine on Left)
CalculateCommentPosition(line, originalLine, hunk, side) ==
    IF hunk.hdr # "ok" THEN [err |-> TRUE, IsOutdated |-> FALSE]
    ELSE LET covers(start, count, n) == start <= n /\ n < start + count
         IN  [err |-> FALSE,
              IsOutdated |->
                  IF side = "Right"
                  THEN ~covers(hunk.newStart, hunk.newCount, line)
                  ELSE ~covers(hunk.oldStart, hunk.oldCount, originalLine)]

\* the flag taken as set when the position calculation fails
IsOutdatedOf_ErrorIsOutdated(raw) ==
    IF raw.DiffHunk.hdr # "none"
    THEN LET flag(pos) == IF ~pos.err THEN pos.IsOutdated ELSE TRUE
         IN  flag(CalculateCommentPosition(raw.Line, raw.OriginalLine,
                                           raw.DiffHunk, DiffSideOf(raw.Side)))
    ELSE FALSE

\* "Calculate if comment is outdated": false without a hunk and on an error
IsOutdatedOf(raw) ==
    IF raw.DiffHunk.hdr # "none"
    THEN LET flag(pos) == IF ~pos.err THEN pos.IsOutdated ELSE FALSE
         IN  flag(CalculateCommentPosition(raw.Line, raw.OriginalLine,
                                           raw.DiffHunk, DiffSideOf(raw.Side)))
    ELSE FALSE

\* a comment body is text with two more tokens: OPEN is the literal
\* ```suggestion and FENCE is a ``` that is not followed by `suggestion`
OPEN == "O"
FENCE == "F"

\* both tokens start with ```, which closes a block
IsFence(t) == t \in {OPEN, FENCE}

\* a block opens at i: the opening token, the line break, and a ``` later on
OpensAt(body, i) ==
    /\ i + 1 <= Len(body)
    /\ body[i] = OPEN
    /\ body[i + 1] = NL
    /\ \E j \in (i + 2)..Len(body) : IsFence(body[j])

\* the inner text of the block opening at i: up to the next ```, without the
\* line break that precedes it
InnerText(body, i) ==
    LET cut(j) == TrimSuffix(SubSeq(body, i + 2, j - 1))
    IN  cut(CHOOSE j \in (i + 2)..Len(body) :
                /\ IsFence(body[j])
                /\ \A k \in (i + 2)..(j - 1) : ~IsFence(body[k]))

\* parser.ParseSuggestion: the inner text of the first suggestion block, or
\* the empty string
ParseSuggestion(body) ==
    LET starts == {i \in 1..Len(body) : OpensAt(body, i)}
        pick(from) == IF from = {} THEN <<>>
                      ELSE InnerText(body, CHOOSE i \in from :
                                              \A k \in from : i <= k)
    IN  pick(starts)

\* the body of a comment that is one suggestion block, or plain text
BodyOf(code) ==
    IF code = <<>> THEN <<"a">> ELSE <<OPEN, NL>> \o code \o <<NL, FENCE>>

\* the ReviewComment with the suggestion of the last block of the body
ReviewCommentOf_LastBlock(raw) ==
    LET starts == {i \in 1..Len(raw.Body) : OpensAt(raw.Body, i)}
        pick(from) == IF from = {} THEN <<>>
                      ELSE InnerText(raw.Body, CHOOSE i \in from :
                                                  \A k \in from : k <= i)
    IN  [Path |-> raw.Path, Line |-> raw.Line,
         OriginalLine |-> raw.OriginalLine,
         DiffHunk |-> raw.DiffHunk, DiffSide |-> DiffSideOf(raw.Side),
         ThreadID |-> raw.ThreadID, IsResolved |-> raw.IsResolved,
         IsOutdated |-> IsOutdatedOf(raw), Body |-> raw.Body,
         HasSuggestion |-> pick(starts) # <<>>,
         SuggestedCode |-> pick(starts)]

\* the ReviewComment built from a raw comment and its thread
ReviewCommentOf(raw) ==
    [Path |-> raw.Path, Line |-> raw.Line, OriginalLine |-> raw.OriginalLine,
     DiffHunk |-> raw.DiffHunk, DiffSide |-> DiffSideOf(raw.Side),
     ThreadID |-> raw.ThreadID, IsResolved |-> raw.IsResolved,
     IsOutdated |-> IsOutdatedOf(raw), Body |-> raw.Body,
     HasSuggestion |-> ParseSuggestion(raw.Body) # <<>>,
     SuggestedCode |-> ParseSuggestion(raw.Body)]

FetchReviewComments(raws) ==
    [k \in 1..Len(raws) |-> ReviewCommentOf(raws[k])]

\* runApply's filter, without --include-resolved and without --file
Suggestions(comments) ==
    SelectSeq(comments, LAMBDA c : c.HasSuggestion /\ ~c.IsResolved)

RawComment(p, line, originalLine, side, h, code, thread, isResolved) ==
    [Path |-> p, Line |-> line, OriginalLine |-> originalLine, Side |-> side,
     DiffHunk |-> h, Body |-> BodyOf(code), ThreadID |-> thread,
     IsResolved |-> isResolved]

\* a hunk with the counts of its header
CountedHunk(hdr, oldStart, oldCount, newStart, newCount) ==
    [hdr |-> hdr, oldStart |-> oldStart, oldCount |-> oldCount,
     newStart |-> newStart, newCount |-> newCount,
     body |-> <<HunkLine("add", <<"a">>)>>]

MaxPosStart == 2
MaxCount == 2
MaxLine == 3

\* @@ -10,3 +10,5 @@
ExampleHunk == CountedHunk("ok", 10, 3, 10, 5)
ExampleLines == {12, 20}

PositionHunks ==
    {CountedHunk("ok", 1, oc, s, nc) :
        oc \in 0..MaxCount, s \in 1..MaxPosStart, nc \in 0..MaxCount}
    \cup {ExampleHunk, CountedHunk("malformed", 0, 0, 0, 0),
          [CountedHunk("none", 0, 0, 0, 0) EXCEPT !.body = <<>>]}

\* the API's answers with one comment carrying a suggestion, at every position
PositionResponses ==
    {<<RawComment(p, line, originalLine, side, h, <<"a">>, TRUE, FALSE)>> :
        p \in Paths, line \in 0..MaxLine \cup ExampleLines,
        originalLine \in 0..MaxLine, side \in Sides, h \in PositionHunks}

\* the API's answers with no comment or one: with or without a suggestion,
\* resolved or not
CommandResponses ==
    {<<>>}
    \cup {<<RawComment(p, 1, 1, "RIGHT", CountedHunk("ok", 1, 0, 1, 1), code,
                       TRUE, isResolved)>> :
            p \in Paths, code \in {<<>>, <<"a", "a">>}, isResolved \in BOOLEAN}

\* checkCleanWorkingDirectory only warning about an unclean tree
checkCleanWorkingDirectory_WarnOnly ==
    /\ pc = "start"
    /\ pc' = "fetch"
    /\ UNCHANGED <<disk, head, suggestions, mode, aiProvider, githubClient,
                   remaining, applied, failed, attempted, last, aiCalls,
                   artifacts, resolved, perm, tree, fetches, githubVars,
                   resolveVars, browseVars>>

\* checkCleanWorkingDirectory, the first statement of runApply
checkCleanWorkingDirectory ==
    /\ pc = "start"
    /\ pc' = IF tree = "clean" THEN "fetch" ELSE "error"
    /\ UNCHANGED <<disk, head, suggestions, mode, aiProvider, githubClient,
                   remaining, applied, failed, attempted, last, aiCalls,
                   artifacts, resolved, perm, tree, fetches, githubVars,
                   resolveVars, browseVars>>

\* the rest of runApply up to the applier's loop: the pull request is
\* selected, the comments are fetched and filtered, the applier gets the
\* GitHub client and, except for --all, the AI provider if there is one
runApplyFetch(responses) ==
    /\ pc = "fetch"
    /\ \/ /\ pc' = "error"
          /\ fetches' \in {fetches, fetches + 1}
          /\ UNCHANGED <<suggestions, aiProvider, githubClient, remaining>>
       \/ /\ fetches' = fetches + 1
          /\ \E raws \in responses, provider \in BOOLEAN :
               LET dispatch(found) ==
                       /\ suggestions' = found
                       /\ remaining' = [k \in 1..Len(found) |-> k]
                       /\ githubClient' = (found # <<>>)
                       /\ aiProvider' = (found # <<>> /\ mode # "all" /\ provider)
                       /\ pc' = IF found = <<>> THEN "done"
                                ELSE IF mode = "aiauto" /\ ~provider THEN "error"
                                ELSE "run"
               IN  dispatch(Suggestions(FetchReviewComments(raws)))
    /\ UNCHANGED <<disk, head, mode, applied, failed, attempted, last, aiCalls,
                   artifacts, resolved, perm, tree, githubVars, resolveVars, browseVars>>

\* git status --porcelain prints something when a file differs from the
\* commit or is untracked, and fails outside a repository
InitCommand ==
    /\ disk \in [Paths -> PickContents]
    /\ head \in [Paths -> PickContents]
    /\ tree \in (IF disk = head THEN {"clean"} ELSE {}) \cup {"dirty", "error"}
    /\ suggestions = <<>>
    /\ mode \in {"all", "aiauto", "interactive"}
    /\ aiProvider = FALSE
    /\ githubClient = FALSE
    /\ pc = "start"
    /\ remaining = <<>>
    /\ applied = 0
    /\ failed = 0
    /\ attempted = <<>>
    /\ last = NoAttempt
    /\ aiCalls = 0
    /\ artifacts = {}
    /\ resolved = {}
    /\ perm = [p \in Paths |-> DefaultMode]
    /\ fetches = 0
    /\ NoResolveCommand
    /\ NoBrowseCommand

NextCommand ==
    \/ checkCleanWorkingDirectory
    \/ runApplyFetch(CommandResponses)
    \/ ApplyAllStep
    \/ ApplyAllWithAIStep
    \/ InteractiveCancel
    \/ InteractiveApply
    \/ InteractiveAI
    \/ InteractiveSkip
    \/ InteractiveQuit

SpecCommand == InitCommand /\ [][NextCommand]_vars

MaxSegments == 3

\* the pieces a body is made of: text, stray tokens and whole blocks
Segments ==
    {<<"a">>, <<NL>>, <<OPEN>>, <<FENCE>>}
    \cup {BodyOf(code) : code \in {<<"a">>, <<"a", "a">>, <<NL>>}}

RECURSIVE Concat(_)
Concat(segments) ==
    IF segments = <<>> THEN <<>> ELSE Head(segments) \o Concat(Tail(segments))

Bodies == {Concat(segments) : segments \in SeqsUpTo(Segments, MaxSegments)}

\* the API's answers with one unresolved comment, for every body
BodyResponses ==
    {<<[RawComment(p, 1, 1, "RIGHT", CountedHunk("ok", 1, 0, 1, 1), <<>>,
                   TRUE, FALSE) EXCEPT !.Body = body]>> :
        p \in Paths, body \in Bodies}

\* `apply --all` on a pull request whose comment has any body
NextParse ==
    \/ checkCleanWorkingDirectory
    \/ runApplyFetch(BodyResponses)
    \/ ApplyAllStep

\* the command started as `apply --all`
InitParse == InitCommand /\ mode = "all"

SpecParse == InitParse /\ [][NextParse]_vars

\* the command up to the fetched comments, for a comment at every position
NextFetch ==
    \/ checkCleanWorkingDirectory
    \/ runApplyFetch(PositionResponses)

SpecFetch == InitCommand /\ [][NextFetch]_vars

(***************************************************************************)
(* The resolve command: runResolve, resolveAllComments and                 *)
(* resolveIndividualComment (cmd/resolve.go).  What the user passes and    *)
(* types are words; a word is a number or not.                             *)
(***************************************************************************)
MaxThreads == 2
MaxArgs == 3
MaxInput == 2

Numerals == <<"1", "2", "3", "4">>

\* strconv.ParseInt / strconv.Atoi: the number, or -1 for an error
ParseInt(word) ==
    IF word = "0" THEN 0
    ELSE IF \E k \in 1..Len(Numerals) : Numerals[k] = word
    THEN CHOOSE k \in 1..Len(Numerals) : Numerals[k] = word
    ELSE -1

ArgWords == {"1", "x"}
InputWords == {"1", "y", "n"}

\* the comments FetchReviewComments returns: comment k lies in thread k
UnresolvedOf(state) == SelectSeq([k \in 1..Len(state) |-> k],
                                 LAMBDA k : ~state[k])

\* a mutation sent to GitHub and what became of it
Request(kind, thread, ok) == [kind |-> kind, thread |-> thread, ok |-> ok]

\* the thread's state after ResolveThread / UnresolveThread
Mutated(state, req) ==
    IF req.ok /\ req.kind = "resolve" THEN [state EXCEPT ![req.thread] = TRUE]
    ELSE IF req.ok /\ req.kind = "unresolve"
    THEN [state EXCEPT ![req.thread] = FALSE]
    ELSE state

\* runResolve up to the call of resolveAllComments or
\* resolveIndividualComment: the arguments are parsed by their count, and
\* without arguments the pull request is inferred and the comment ID is asked
runResolve ==
    /\ rpc = "start"
    /\ \E found \in BOOLEAN :
         LET dispatch(id) ==
                 /\ commentID' = IF id < 0 THEN 0 ELSE id
                 /\ rpc' = IF id < 0 THEN "error"
                           ELSE IF resolveAll THEN "all"
                           ELSE IF id = 0 THEN "error"
                           ELSE "individual"
         IN  IF Len(args) = 0
             THEN IF ~found
                  THEN /\ rpc' = "error"
                       /\ UNCHANGED <<stdin, commentID, prompts>>
                  ELSE /\ prompts' = Append(prompts, "id")
                       /\ IF stdin = <<>>
                          THEN /\ rpc' = "error"
                               /\ UNCHANGED <<stdin, commentID>>
                          ELSE /\ stdin' = Tail(stdin)
                               /\ dispatch(ParseInt(Head(stdin)))
             ELSE IF Len(args) = 1
             THEN /\ IF ParseInt(args[1]) < 0 \/ ~found
                     THEN rpc' = "error" /\ commentID' = commentID
                     ELSE dispatch(ParseInt(args[1]))
                  /\ UNCHANGED <<stdin, prompts>>
             ELSE IF Len(args) = 2
             THEN /\ IF ParseInt(args[1]) < 0
                     THEN rpc' = "error" /\ commentID' = commentID
                     ELSE dispatch(ParseInt(args[2]))
                  /\ UNCHANGED <<stdin, prompts>>
             ELSE /\ rpc' = "error"
                  /\ UNCHANGED <<stdin, commentID, prompts>>
    /\ UNCHANGED <<applyVars, browseVars, fetches, githubVars, args, resolveAll,
                   resolveUnresolve, resolveComment, unresolvedComments,
                   successCount, errorCount>>

\* resolveAllComments up to its loop: the comments are fetched, the
\* unresolved ones are listed, the user is asked, the comment text is read
resolveAllComments ==
    /\ rpc = "all"
    /\ fetches' = fetches + 1
    /\ \E fetched \in BOOLEAN, textRead \in BOOLEAN :
         IF ~fetched
         THEN /\ rpc' = "error"
              /\ UNCHANGED <<stdin, prompts, unresolvedComments>>
         ELSE IF UnresolvedOf(threads) = <<>>
         THEN /\ rpc' = "done"
              /\ UNCHANGED <<stdin, prompts, unresolvedComments>>
         ELSE /\ prompts' = Append(prompts, "confirm")
              /\ IF stdin = <<>>
                 THEN /\ rpc' = "error"
                      /\ UNCHANGED <<stdin, unresolvedComments>>
                 ELSE /\ stdin' = Tail(stdin)
                      /\ IF Head(stdin) # "y"
                         THEN /\ rpc' = "cancelled"
                              /\ UNCHANGED unresolvedComments
                         ELSE IF resolveComment /\ ~textRead
                         THEN /\ rpc' = "error"
                              /\ UNCHANGED unresolvedComments
                         ELSE /\ rpc' = "loop"
                              /\ unresolvedComments' = UnresolvedOf(threads)
    /\ UNCHANGED <<applyVars, browseVars, githubVars, args, resolveAll, resolveUnresolve,
                   resolveComment, commentID, successCount, errorCount>>

\* one iteration of resolveAllComments' loop
resolveAllStep ==
    /\ rpc = "loop"
    /\ unresolvedComments # <<>>
    /\ \E replied \in BOOLEAN, ok \in BOOLEAN :
         LET send(thread, kind) ==
                 IF resolveComment /\ ~replied
                 THEN /\ requests' = Append(requests,
                                            Request("reply", thread, FALSE))
                      /\ errorCount' = errorCount + 1
                      /\ UNCHANGED <<threads, successCount>>
                 ELSE /\ requests' =
                           (IF resolveComment
                            THEN Append(requests, Request("reply", thread, TRUE))
                            ELSE requests) \o <<Request(kind, thread, ok)>>
                      /\ threads' = Mutated(threads, Request(kind, thread, ok))
                      /\ IF ok
                         THEN successCount' = successCount + 1
                              /\ errorCount' = errorCount
                         ELSE errorCount' = errorCount + 1
                              /\ successCount' = successCount
         IN  send(Head(unresolvedComments),
                  IF resolveUnresolve THEN "unresolve" ELSE "resolve")
    /\ unresolvedComments' = Tail(unresolvedComments)
    /\ rpc' = IF Tail(unresolvedComments) = <<>> THEN "done" ELSE "loop"
    /\ UNCHANGED <<applyVars, browseVars, fetches, args, resolveAll, resolveUnresolve,
                   resolveComment, stdin, commentID, prompts>>

\* resolveIndividualComment: the comment's thread is looked up, the comment
\* text is posted if there is one, the thread is resolved or unresolved
resolveIndividualComment ==
    /\ rpc = "individual"
    /\ fetches' = fetches + 1
    /\ \E fetched \in BOOLEAN, textRead \in BOOLEAN, replied \in BOOLEAN,
          ok \in BOOLEAN :
         LET send(kind) ==
                 /\ requests' =
                      (IF resolveComment
                       THEN Append(requests,
                                   Request("reply", commentID, replied))
                       ELSE requests) \o <<Request(kind, commentID, ok)>>
                 /\ threads' = Mutated(threads, Request(kind, commentID, ok))
                 /\ rpc' = IF ok THEN "done" ELSE "error"
         IN  IF ~fetched \/ commentID \notin 1..Len(threads)
                \/ (resolveComment /\ ~textRead)
             THEN rpc' = "error" /\ UNCHANGED <<threads, requests>>
             ELSE send(IF resolveUnresolve THEN "unresolve" ELSE "resolve")
    /\ UNCHANGED <<applyVars, browseVars, args, resolveAll, resolveUnresolve,
                   resolveComment, stdin, commentID, unresolvedComments,
                   successCount, errorCount, prompts>>

InitResolve ==
    /\ disk \in [Paths -> {<<>>}]
    /\ head = disk
    /\ suggestions = <<>>
    /\ mode = "all"
    /\ aiProvider = FALSE
    /\ githubClient = TRUE
    /\ pc = "done"
    /\ remaining = <<>>
    /\ applied = 0
    /\ failed = 0
    /\ attempted = <<>>
    /\ last = NoAttempt
    /\ aiCalls = 0
    /\ artifacts = {}
    /\ resolved = {}
    /\ perm = [p \in Paths |-> DefaultMode]
    /\ tree = "clean"
    /\ fetches = 0
    /\ threads \in SeqsUpTo(BOOLEAN, MaxThreads)
    /\ requests = <<>>
    /\ args \in SeqsUpTo(ArgWords, MaxArgs)
    /\ resolveAll \in BOOLEAN
    /\ resolveUnresolve \in BOOLEAN
    /\ resolveComment \in BOOLEAN
    /\ stdin \in SeqsUpTo(InputWords, MaxInput)
    /\ rpc = "start"
    /\ commentID = 0
    /\ unresolvedComments = <<>>
    /\ successCount = 0
    /\ errorCount = 0
    /\ prompts = <<>>
    /\ NoBrowseCommand

NextResolve ==
    \/ runResolve
    \/ resolveAllComments
    \/ resolveAllStep
    \/ resolveIndividualComment

SpecResolve == InitResolve /\ [][NextResolve]_vars

(***************************************************************************)
(* The browse command and its selector: runBrowse (DESIGN.md) and          *)
(* SelectionModel (pkg/ui).  The pull request has one file; comment t of   *)
(* that file starts thread t.  A BrowseItem names its ReviewComment object *)
(* by the fetch that built it (Gen) and by its thread.                     *)
(***************************************************************************)
MaxComments == 2
MaxFetches == 3
MaxMsgs == 2
MaxCmds == 2

BrowseItem(type, gen, thread) == [Type |-> type, Gen |-> gen, Thread |-> thread]

\* the nil list.Item
NoItem == BrowseItem("nil", 0, 0)

\* buildCommentTree for the comments 1..n that fetch gen returned: the file
\* header, then for every comment the comment item and its preview item
RECURSIVE buildCommentTree(_, _)
buildCommentTree(gen, n) ==
    IF n = 0 THEN <<BrowseItem("file", 0, 0)>>
    ELSE buildCommentTree(gen, n - 1)
         \o <<BrowseItem("comment", gen, n),
              BrowseItem("comment_preview", gen, n)>>

\* browseItemRenderer.IsSkippable
IsSkippable(item) == item.Type = "comment_preview"

\* runBrowse's filterFunc, with the collapsed state and the comment objects
\* it reads
filterFunc(item, hideResolved, collapsed, objects) ==
    IF item.Type # "file" /\ collapsed THEN FALSE
    ELSE IF hideResolved
    THEN item.Type = "file" \/ ~objects[item.Gen][item.Thread]
    ELSE TRUE

\* what the user types into the list's filter input: a text that matches the
\* path (and so every item), the body of one comment (its comment item and
\* its preview item), or nothing
FilterText(kind, thread) == [kind |-> kind, thread |-> thread]
FilterTexts(n) ==
    {FilterText("path", 0), FilterText("nothing", 0)}
        \cup {FilterText("body", t) : t \in 1..n}

\* browseItemRenderer.FilterValue matched against the text
Matches(item, text) ==
    \/ text.kind = "path"
    \/ text.kind = "body" /\ item.Type # "file" /\ item.Thread = text.thread

(***************************************************************************)
(* list.Model of the bubbles library, on one page: the items, the items    *)
(* the text filter has kept, the filter state, the text in the filter      *)
(* input and the cursor (from 0).                                          *)
(***************************************************************************)
\* list.New
NewList(its) ==
    [items |-> its, filteredItems |-> <<>>, filterState |-> "unfiltered",
     filterText |-> FilterText("", 0), cursor |-> 0]

\* Model.VisibleItems
VisibleItems(l) ==
    IF l.filterState = "unfiltered" THEN l.items ELSE l.filteredItems

\* Model.SelectedItem: nil when the cursor is not on a visible item
SelectedItem(l) ==
    IF l.cursor < Len(VisibleItems(l)) THEN VisibleItems(l)[l.cursor + 1]
    ELSE NoItem

\* Model.CursorDown: one down, staying on the last visible item; a cursor
\* beyond the visible items goes to the first
CursorDown(cursor, visible) ==
    IF cursor + 1 < visible THEN cursor + 1
    ELSE IF cursor + 1 > visible THEN 0
    ELSE IF visible = 0 THEN 0 ELSE visible - 1

\* Model.CursorUp: one up, staying on the first item
CursorUp(cursor) == IF cursor = 0 THEN 0 ELSE cursor - 1

\* Model.SetItems: a filter that is on loses the items it has kept
SetItems(l, its) ==
    [l EXCEPT !.items = its,
              !.filteredItems = IF l.filterState = "unfiltered" THEN @
                                ELSE <<>>]

\* Model.SetItem: the index counts in all the items
SetItem(l, index, item) ==
    IF index < Len(l.items) THEN [l EXCEPT !.items[index + 1] = item] ELSE l

(***************************************************************************)
(* SelectionModel                                                          *)
(***************************************************************************)
\* SelectionModel.updateVisibleItems
updateVisibleItems(model, collapsed, objects) ==
    [model EXCEPT !.list =
        SetItems(@, SelectSeq(model.items,
                              LAMBDA item : filterFunc(item, model.filterActive,
                                                       collapsed, objects)))]

\* ui.Select: the model before the program runs
Select(its, collapsed, objects) ==
    updateVisibleItems(
        [items |-> its, list |-> NewList(its), showDetail |-> FALSE,
         showHelp |-> FALSE, filterActive |-> TRUE, refreshing |-> FALSE,
         pendingEditorItem |-> NoItem, pendingEditorTmpFile |-> 0,
         pendingEditorAction |-> 0, confirmationMessage |-> FALSE,
         loadingDetail |-> FALSE],
        collapsed, objects)

\* the cursor after the loop of the down key that skips skippable items,
\* entered with the cursor at `cursor`; hung when the loop comes back to a
\* cursor it has left, which it then does for ever
RECURSIVE SkipDown(_, _, _)
SkipDown(l, cursor, seen) ==
    LET at(visible) ==
            IF cursor >= Len(visible) THEN [cursor |-> cursor, hung |-> FALSE]
            ELSE IF ~IsSkippable(visible[cursor + 1])
            THEN [cursor |-> cursor, hung |-> FALSE]
            ELSE IF cursor \in seen THEN [cursor |-> cursor, hung |-> TRUE]
            ELSE SkipDown(l, IF cursor = Len(l.items) - 1
                             THEN CursorUp(cursor)
                             ELSE CursorDown(cursor, Len(visible)),
                          seen \cup {cursor})
    IN  at(VisibleItems(l))

\* the same for the up key
RECURSIVE SkipUp(_, _, _)
SkipUp(l, cursor, seen) ==
    LET at(visible) ==
            IF cursor >= Len(visible) THEN [cursor |-> cursor, hung |-> FALSE]
            ELSE IF ~IsSkippable(visible[cursor + 1])
            THEN [cursor |-> cursor, hung |-> FALSE]
            ELSE IF cursor \in seen THEN [cursor |-> cursor, hung |-> TRUE]
            ELSE SkipUp(l, IF cursor = 0
                           THEN CursorDown(cursor, Len(visible))
                           ELSE CursorUp(cursor),
                        seen \cup {cursor})
    IN  at(VisibleItems(l))

\* Model.resetFiltering
resetFiltering(l) ==
    [l EXCEPT !.filterState = "unfiltered", !.filterText = FilterText("", 0),
              !.filteredItems = <<>>]

\* a message to Update
Msg(type, gen, err) == [type |-> type, gen |-> gen, err |-> err]

\* the messages left when the one at position i is taken
Taken(queue, i) == SubSeq(queue, 1, i - 1) \o SubSeq(queue, i + 1, Len(queue))

\* a command can send its message
CanSend == Len(msgs) < MaxMsgs

\* Update can take a message: the program has not quit, waits for no editor
\* and is in no endless loop
Ready ==
    /\ editor = 0
    /\ ~hung
    /\ \A i \in 1..Len(msgs) : msgs[i].type # "QuitMsg"

\* the view a key goes to, in the order Update asks
View ==
    IF selectionModel.confirmationMessage THEN "confirmation"
    ELSE IF selectionModel.showDetail THEN "detail"
    ELSE IF selectionModel.showHelp THEN "help"
    ELSE IF selectionModel.list.filterState = "filtering" THEN "filtering"
    ELSE "list"

\* Update(tea.KeyMsg) while the confirmation message shows: any key
\* dismisses it and does nothing else
Dismiss ==
    /\ selectionModel' = [selectionModel EXCEPT !.confirmationMessage = FALSE]
    /\ UNCHANGED <<applyVars, fetches, githubVars, resolveVars,
                   collapsedFiles, reviewComments, cmds, msgs, editor,
                   tmpFiles, callbacks, hung>>

\* Update(tea.KeyMsg) for a key the view has no case for
Ignored == UNCHANGED vars

\* Update(tea.KeyMsg "down"): in the list view the cursor goes one down and
\* then over the skippable items
KeyDown ==
    /\ Ready
    /\ IF View = "confirmation" THEN Dismiss
       ELSE IF View # "list" THEN Ignored
       ELSE LET l == selectionModel.list
                end == SkipDown(l, CursorDown(l.cursor, Len(VisibleItems(l))),
                                {})
            IN  /\ selectionModel' =
                     [selectionModel EXCEPT !.list.cursor = end.cursor]
                /\ hung' = end.hung
                /\ UNCHANGED <<applyVars, fetches, githubVars, resolveVars,
                               collapsedFiles, reviewComments, cmds, msgs,
                               editor, tmpFiles, callbacks>>

\* Update(tea.KeyMsg "up")
KeyUp ==
    /\ Ready
    /\ IF View = "confirmation" THEN Dismiss
       ELSE IF View # "list" THEN Ignored
       ELSE LET l == selectionModel.list
                end == SkipUp(l, CursorUp(l.cursor), {})
            IN  /\ selectionModel' =
                     [selectionModel EXCEPT !.list.cursor = end.cursor]
                /\ hung' = end.hung
                /\ UNCHANGED <<applyVars, fetches, githubVars, resolveVars,
                               collapsedFiles, reviewComments, cmds, msgs,
                               editor, tmpFiles, callbacks>>

\* Update(tea.KeyMsg "/"): the list starts filtering, with the cursor on the
\* first item and, if the filter input is empty, every item kept
KeySlash ==
    /\ Ready
    /\ IF View = "confirmation" THEN Dismiss
       ELSE IF View # "list" THEN Ignored
       ELSE /\ selectionModel' =
                 [selectionModel EXCEPT
                    !.list = [@ EXCEPT
                        !.filteredItems =
                            IF @ = <<>> /\ selectionModel.list.filterText.kind = ""
                            THEN selectionModel.list.items ELSE @,
                        !.cursor = 0,
                        !.filterState = "filtering"]]
            /\ UNCHANGED <<applyVars, fetches, githubVars, resolveVars,
                           collapsedFiles, reviewComments, cmds, msgs, editor,
                           tmpFiles, callbacks, hung>>

\* Update(tea.KeyMsg) for the keys typed into the filter input: the list
\* keeps the items whose FilterValue matches the text
KeyFilterText ==
    /\ Ready
    /\ View = "filtering"
    /\ \E text \in FilterTexts(Len(threads)) :
         selectionModel' =
             [selectionModel EXCEPT
                !.list = [@ EXCEPT
                    !.filterText = text,
                    !.filteredItems =
                        SelectSeq(selectionModel.list.items,
                                  LAMBDA item : Matches(item, text))]]
    /\ UNCHANGED <<applyVars, fetches, githubVars, resolveVars,
                   collapsedFiles, reviewComments, cmds, msgs, editor,
                   tmpFiles, callbacks, hung>>

\* Update(tea.KeyMsg "enter"): the filter is accepted (dropped when it keeps
\* nothing); in the list view the detail is loaded by a loadDetailMsg, and
\* without a selected item the program quits
KeyEnter ==
    /\ Ready
    /\ IF View = "confirmation" THEN Dismiss
       ELSE IF View \in {"detail", "help"} THEN Ignored
       ELSE IF View = "filtering"
       THEN /\ selectionModel' =
                 [selectionModel EXCEPT
                    !.list = IF @.filteredItems = <<>> \/ @.filterText.kind = ""
                             THEN resetFiltering(@)
                             ELSE [@ EXCEPT !.filterState = "applied"]]
            /\ UNCHANGED <<applyVars, fetches, githubVars, resolveVars,
                           collapsedFiles, reviewComments, cmds, msgs, editor,
                           tmpFiles, callbacks, hung>>
       ELSE /\ CanSend
            /\ IF SelectedItem(selectionModel.list) = NoItem
               THEN /\ msgs' = Append(msgs, Msg("QuitMsg", 0, FALSE))
                    /\ UNCHANGED selectionModel
               ELSE /\ msgs' = Append(msgs, Msg("loadDetailMsg", 0, FALSE))
                    /\ selectionModel' =
                         [selectionModel EXCEPT !.loadingDetail = TRUE]
            /\ UNCHANGED <<applyVars, fetches, githubVars, resolveVars,
                           collapsedFiles, reviewComments, cmds, editor,
                           tmpFiles, callbacks, hung>>

\* Update(tea.KeyMsg "esc"): the detail or the help is closed, the filter is
\* dropped, and the unfiltered list quits
KeyEsc ==
    /\ Ready
    /\ IF View = "confirmation" THEN Dismiss
       ELSE /\ IF View = "list"
                  /\ selectionModel.list.filterState = "unfiltered"
               THEN /\ CanSend
                    /\ msgs' = Append(msgs, Msg("QuitMsg", 0, FALSE))
                    /\ UNCHANGED selectionModel
               ELSE /\ selectionModel' =
                         IF View = "detail"
                         THEN [selectionModel EXCEPT !.showDetail = FALSE]
                         ELSE IF View = "help"
                         THEN [selectionModel EXCEPT !.showHelp = FALSE]
                         ELSE [selectionModel EXCEPT
                                 !.list = resetFiltering(@)]
                    /\ UNCHANGED msgs
            /\ UNCHANGED <<applyVars, fetches, githubVars, resolveVars,
                           collapsedFiles, reviewComments, cmds, editor,
                           tmpFiles, callbacks, hung>>

\* Update(tea.KeyMsg "h"): the list shows or hides the resolved comments; the
\* detail view closes
KeyHideResolved ==
    /\ Ready
    /\ View # "filtering"
    /\ IF View = "confirmation" THEN Dismiss
       ELSE IF View = "help" THEN Ignored
       ELSE /\ selectionModel' =
                 IF View = "detail"
                 THEN [selectionModel EXCEPT !.showDetail = FALSE]
                 ELSE updateVisibleItems(
                          [selectionModel EXCEPT !.filterActive = ~@],
                          collapsedFiles, reviewComments)
            /\ UNCHANGED <<applyVars, fetches, githubVars, resolveVars,
                           collapsedFiles, reviewComments, cmds, msgs, editor,
                           tmpFiles, callbacks, hung>>

\* Update(loadDetailMsg): OnSelect of the selected item.  A file header is
\* collapsed or expanded and the visible items are rebuilt; for a comment
\* the comments are fetched again, the comment takes the fetched resolved
\* state, and the detail view opens (also when the fetch fails)
UpdateLoadDetail ==
    /\ Ready
    /\ \E i \in 1..Len(msgs), fetched \in BOOLEAN :
         /\ msgs[i].type = "loadDetailMsg"
         /\ msgs' = Taken(msgs, i)
         /\ LET item == SelectedItem(selectionModel.list)
                loaded == [selectionModel EXCEPT !.loadingDetail = FALSE]
            IN  IF item = NoItem
                THEN /\ selectionModel' = loaded
                     /\ UNCHANGED <<fetches, collapsedFiles, reviewComments>>
                ELSE IF item.Type = "file"
                THEN /\ collapsedFiles' = ~collapsedFiles
                     /\ selectionModel' =
                          [updateVisibleItems(loaded, ~collapsedFiles,
                                              reviewComments)
                             EXCEPT !.list = SetItem(@, @.cursor, item)]
                     /\ UNCHANGED <<fetches, reviewComments>>
                ELSE /\ fetches < MaxFetches
                     /\ fetches' = fetches + 1
                     /\ reviewComments' =
                          IF fetched
                          THEN [reviewComments EXCEPT
                                  ![item.Gen][item.Thread] =
                                      threads[item.Thread]]
                          ELSE reviewComments
                     /\ selectionModel' = [loaded EXCEPT !.showDetail = TRUE]
                     /\ UNCHANGED collapsedFiles
    /\ UNCHANGED <<applyVars, githubVars, resolveVars, cmds, editor, tmpFiles,
                   callbacks, hung>>

\* a command Update has returned and the runtime has not yet run
Cmd(type, file) == [type |-> type, file |-> file]

\* the runtime can take one more command
CanStart == Len(cmds) < MaxCmds

\* resolveCommentAction on the comment object of an item whose request is
\* answered ok: a comment the client holds as resolved is unresolved,
\* another one is resolved
Toggled(objects, item) ==
    [objects EXCEPT ![item.Gen][item.Thread] = ~@]

\* GitHub's threads after that request
ToggledThreads(objects, item) ==
    [threads EXCEPT ![item.Thread] = ~objects[item.Gen][item.Thread]]

\* the guard of the refresh key that lets a refresh start at any time
CanRefresh_WhilePending(model) == TRUE

\* the guard of the refresh key: no refresh is pending
CanRefresh(model) == ~model.refreshing

\* Update(tea.KeyMsg "i"): in the list view a refresh starts unless one is
\* pending
KeyRefresh ==
    /\ Ready
    /\ View # "filtering"
    /\ IF View = "confirmation" THEN Dismiss
       ELSE IF View # "list" \/ ~CanRefresh(selectionModel) THEN Ignored
       ELSE /\ CanStart
            /\ selectionModel' = [selectionModel EXCEPT !.refreshing = TRUE]
            /\ cmds' = Append(cmds, Cmd("refresh", 0))
            /\ UNCHANGED <<applyVars, fetches, githubVars, resolveVars,
                           collapsedFiles, reviewComments, msgs, editor,
                           tmpFiles, callbacks, hung>>

\* the command of the refresh key, run by the runtime beside Update:
\* refreshItems fetches the comments and builds new items from them
RefreshItems ==
    /\ \E i \in 1..Len(cmds), fetched \in BOOLEAN :
         /\ cmds[i].type = "refresh"
         /\ cmds' = Taken(cmds, i)
         /\ fetches < MaxFetches
         /\ fetches' = fetches + 1
         /\ IF fetched
            THEN /\ reviewComments' = Append(reviewComments, threads)
                 /\ msgs' = Append(msgs, Msg("refreshFinishedMsg",
                                             Len(reviewComments) + 1, FALSE))
            ELSE /\ msgs' = Append(msgs, Msg("refreshFinishedMsg", 0, TRUE))
                 /\ UNCHANGED reviewComments
    /\ UNCHANGED <<applyVars, githubVars, resolveVars, selectionModel,
                   collapsedFiles, editor, tmpFiles, callbacks, hung>>

\* Update(refreshFinishedMsg): no refresh is pending any more; the items of
\* a successful refresh replace the model's items
UpdateRefreshFinished ==
    /\ Ready
    /\ \E i \in 1..Len(msgs) :
         /\ msgs[i].type = "refreshFinishedMsg"
         /\ msgs' = Taken(msgs, i)
         /\ selectionModel' =
              IF msgs[i].err
              THEN [selectionModel EXCEPT !.refreshing = FALSE]
              ELSE updateVisibleItems(
                       [selectionModel EXCEPT
                          !.refreshing = FALSE,
                          !.items = buildCommentTree(msgs[i].gen,
                                                     Len(threads))],
                       collapsedFiles, reviewComments)
    /\ UNCHANGED <<applyVars, fetches, githubVars, resolveVars,
                   collapsedFiles, reviewComments, cmds, editor, tmpFiles,
                   callbacks, hung>>

\* Update(tea.KeyMsg "r" or "u"): resolveAction on the selected item, in the
\* list view and in the detail view, which it closes.  A file header is left
\* alone; the thread of a comment is resolved or unresolved on GitHub and,
\* when that request succeeds, in the comment object
KeyResolve ==
    /\ Ready
    /\ View # "filtering"
    /\ IF View = "confirmation" THEN Dismiss
       ELSE IF View = "help" \/ SelectedItem(selectionModel.list) = NoItem
       THEN Ignored
       ELSE \E ok \in BOOLEAN :
            LET item == SelectedItem(selectionModel.list)
                closed == [selectionModel EXCEPT !.showDetail = FALSE]
                act(done) ==
                    /\ reviewComments' = IF done
                                         THEN Toggled(reviewComments, item)
                                         ELSE reviewComments
                    /\ threads' = IF done
                                  THEN ToggledThreads(reviewComments, item)
                                  ELSE threads
                    /\ selectionModel' =
                         IF item.Type = "file" \/ done
                         THEN [closed EXCEPT
                                 !.list = SetItem(@, @.cursor, item)]
                         ELSE closed
            IN  /\ act(item.Type # "file" /\ ok)
                /\ UNCHANGED <<applyVars, fetches, requests, resolveVars,
                               collapsedFiles, cmds, msgs, editor, tmpFiles,
                               callbacks, hung>>

\* Update(tea.KeyMsg "?"): the help opens from the list and closes again
KeyHelp ==
    /\ Ready
    /\ View # "filtering"
    /\ IF View = "confirmation" THEN Dismiss
       ELSE IF View = "detail" THEN Ignored
       ELSE /\ selectionModel' = [selectionModel EXCEPT !.showHelp = ~@]
            /\ UNCHANGED <<applyVars, fetches, githubVars, resolveVars,
                           collapsedFiles, reviewComments, cmds, msgs, editor,
                           tmpFiles, callbacks, hung>>

\* Update(tea.KeyMsg "right"): the detail view of the selected item opens
\* with the data the client holds
KeyRight ==
    /\ Ready
    /\ IF View = "confirmation" THEN Dismiss
       ELSE IF View # "list" \/ SelectedItem(selectionModel.list) = NoItem
       THEN Ignored
       ELSE /\ selectionModel' = [selectionModel EXCEPT !.showDetail = TRUE]
            /\ UNCHANGED <<applyVars, fetches, githubVars, resolveVars,
                           collapsedFiles, reviewComments, cmds, msgs, editor,
                           tmpFiles, callbacks, hung>>

(***************************************************************************)
(* The editor of the selector.  The text of a temp file is a sequence of   *)
(* characters: a letter, '#', a space or a newline.                        *)
(***************************************************************************)
MaxContent == 5
MaxSessions == 1

EditorChars == {"a", "#", " ", NL}
EditorTexts == SeqsUpTo(EditorChars, MaxContent)

\* the instruction line startEditorForAction appends
Template == <<"#", "a", NL>>

\* ui.FormatQuotedReply: the quoted comment and an empty line
FormatQuotedReply == <<"a", NL, NL>>

\* editorPrepareR / editorPrepareQ / editorPrepareC: the initial content
\* for a comment, by the number of the action
InitialContent(actionNum) == IF actionNum = 2 THEN <<>> ELSE FormatQuotedReply

\* strings.TrimSpace
RECURSIVE TrimLeft(_)
TrimLeft(s) ==
    IF s # <<>> /\ Head(s) \in {" ", NL} THEN TrimLeft(Tail(s)) ELSE s

RECURSIVE TrimRight(_)
TrimRight(s) ==
    IF s # <<>> /\ s[Len(s)] \in {" ", NL}
    THEN TrimRight(SubSeq(s, 1, Len(s) - 1)) ELSE s

TrimSpace(s) == TrimRight(TrimLeft(s))

\* the loop of SanitizeEditorContent: the last line is dropped while it is
\* blank or starts with '#'
RECURSIVE DropTrailing(_)
DropTrailing(lines) ==
    IF lines = <<>> THEN lines
    ELSE LET drop(lastLine) ==
                 IF TrimSpace(lastLine) = <<>>
                    \/ (lastLine # <<>> /\ Head(lastLine) = "#")
                 THEN DropTrailing(SubSeq(lines, 1, Len(lines) - 1))
                 ELSE lines
         IN  drop(lines[Len(lines)])

\* SanitizeEditorContent whose loop drops every line that starts with '#'
SanitizeEditorContent_AllComments(raw) ==
    TrimSpace(Join(SelectSeq(DropTrailing(Split(raw)),
                             LAMBDA line : line = <<>> \/ Head(line) # "#")))

\* SanitizeEditorContent
SanitizeEditorContent(raw) == TrimSpace(Join(DropTrailing(Split(raw))))

\* a temp file: whether it is still there, and its text
TmpFile(exists, content) == [exists |-> exists, content |-> content]

\* a call of ResolveCommentComplete, QuoteComplete or QuoteContextComplete
Callback(tmpFile, actionNum, item, content, body, err) ==
    [tmpFile |-> tmpFile, actionNum |-> actionNum, item |-> item,
     content |-> content, body |-> body, err |-> err]

\* Update(tea.KeyMsg "R", "Q" or "C"), for the keys of the actions given (2
\* is R, 3 is Q, 4 is C): the prepare callback of the action,
\* then startEditorForAction: a temp file with the initial content and the
\* template is made, the pending item, file and action are stored, and the
\* editor is handed to the runtime.  The detail view closes
KeyEditorAction(actionNums) ==
    /\ Ready
    /\ View # "filtering"
    /\ IF View = "confirmation" THEN Dismiss
       ELSE IF View = "help" \/ SelectedItem(selectionModel.list) = NoItem
       THEN Ignored
       ELSE \E actionNum \in actionNums, created \in BOOLEAN :
            LET item == SelectedItem(selectionModel.list)
                closed == [selectionModel EXCEPT !.showDetail = FALSE]
                start(tmpFile) ==
                    /\ tmpFiles' =
                         Append(tmpFiles,
                                TmpFile(TRUE, InitialContent(actionNum)
                                              \o Template))
                    /\ selectionModel' =
                         [closed EXCEPT !.pendingEditorItem = item,
                                        !.pendingEditorTmpFile = tmpFile,
                                        !.pendingEditorAction = actionNum]
                    /\ cmds' = Append(cmds, Cmd("exec", tmpFile))
            IN  /\ IF item.Type = "file" \/ ~created
                   THEN /\ selectionModel' = closed
                        /\ UNCHANGED <<tmpFiles, cmds>>
                   ELSE /\ CanStart
                        /\ Len(tmpFiles) < MaxSessions
                        /\ start(Len(tmpFiles) + 1)
                /\ UNCHANGED <<applyVars, fetches, githubVars, resolveVars,
                               collapsedFiles, reviewComments, msgs, editor,
                               callbacks, hung>>

\* the source file of the selected item, as the editor's file
SourceFile == -1

\* Update(tea.KeyMsg "ctrl+e"): editInEditor hands an editor on the source
\* file to the runtime and stores nothing
KeyEditFile ==
    /\ Ready
    /\ IF View = "confirmation" THEN Dismiss
       ELSE IF View # "list" \/ SelectedItem(selectionModel.list) = NoItem
       THEN Ignored
       ELSE /\ CanStart
            /\ cmds' = Append(cmds, Cmd("exec", SourceFile))
            /\ UNCHANGED <<applyVars, fetches, githubVars, resolveVars,
                           selectionModel, collapsedFiles, reviewComments,
                           msgs, editor, tmpFiles, callbacks, hung>>

\* tea.ExecProcess: the runtime takes the command, starts the editor and
\* waits for it; Update is not called meanwhile
ExecProcess ==
    /\ Ready
    /\ \E i \in 1..Len(cmds) :
         /\ cmds[i].type = "exec"
         /\ cmds' = Taken(cmds, i)
         /\ editor' = cmds[i].file
    /\ UNCHANGED <<applyVars, fetches, githubVars, resolveVars,
                   selectionModel, collapsedFiles, reviewComments, msgs,
                   tmpFiles, callbacks, hung>>

\* the editor ends, with or without an error, after the user has or has not
\* saved one of the texts to the temp file; the runtime sends
\* editorFinishedMsg
EditorExit(texts) ==
    /\ editor # 0
    /\ CanSend
    /\ editor' = 0
    /\ \E err \in BOOLEAN : msgs' = Append(msgs, Msg("editorFinishedMsg", 0, err))
    /\ \/ UNCHANGED tmpFiles
       \/ /\ editor # SourceFile
          /\ \E text \in texts :
               tmpFiles' = [tmpFiles EXCEPT ![editor] = TmpFile(TRUE, text)]
    /\ UNCHANGED <<applyVars, fetches, githubVars, resolveVars,
                   selectionModel, collapsedFiles, reviewComments, cmds,
                   callbacks, hung>>

\* the model when handleEditorFinished returns without its deferred function
pendingCleared_Kept(model) == model

\* the model when handleEditorFinished returns: its deferred function has
\* cleared the pending temp file and the pending action
pendingCleared(model) ==
    [model EXCEPT !.pendingEditorTmpFile = 0, !.pendingEditorAction = 0]

\* Update(editorFinishedMsg): handleEditorFinished.  The temp file is
\* removed.  Without an error of the editor, with a pending temp file that
\* can be read and a sanitized body that is not empty, the completion
\* callback of the pending action is called: it posts the reply and, for
\* action 2, toggles the thread; when it succeeds the item is set in the
\* list and the confirmation message shows
UpdateEditorFinished ==
    /\ Ready
    /\ \E i \in 1..Len(msgs), read \in BOOLEAN, replied \in BOOLEAN,
          ok \in BOOLEAN :
         LET tmpFile == selectionModel.pendingEditorTmpFile
             actionNum == selectionModel.pendingEditorAction
             item == selectionModel.pendingEditorItem
             cleared == pendingCleared(selectionModel)
             complete(content, body) ==
                 /\ callbacks' =
                      Append(callbacks,
                             Callback(tmpFile, actionNum, item, content, body,
                                      msgs[i].err))
                 /\ IF replied /\ actionNum = 2 /\ ok
                    THEN /\ reviewComments' = Toggled(reviewComments, item)
                         /\ threads' = ToggledThreads(reviewComments, item)
                    ELSE UNCHANGED <<reviewComments, threads>>
                 /\ selectionModel' =
                      IF replied /\ (actionNum = 2 => ok)
                      THEN [cleared EXCEPT
                              !.list = SetItem(@, @.cursor, item),
                              !.confirmationMessage = TRUE]
                      ELSE cleared
             finish(content) ==
                 IF SanitizeEditorContent(content) = <<>>
                 THEN /\ selectionModel' = cleared
                      /\ UNCHANGED <<reviewComments, threads, callbacks>>
                 ELSE complete(content, SanitizeEditorContent(content))
         IN  /\ msgs[i].type = "editorFinishedMsg"
             /\ msgs' = Taken(msgs, i)
             /\ tmpFiles' = IF tmpFile = 0 THEN tmpFiles
                            ELSE [tmpFiles EXCEPT
                                    ![tmpFile] = TmpFile(FALSE, <<>>)]
             /\ IF msgs[i].err \/ tmpFile = 0 \/ ~read
                   \/ ~tmpFiles[tmpFile].exists
                THEN /\ selectionModel' = cleared
                     /\ UNCHANGED <<reviewComments, threads, callbacks>>
                ELSE finish(tmpFiles[tmpFile].content)
    /\ UNCHANGED <<applyVars, fetches, requests, resolveVars, collapsedFiles,
                   cmds, editor, hung>>

\* the browse command once runBrowse has fetched the comments, built the
\* tree and ui.Select has made the model: resolved comments are hidden
InitBrowse ==
    /\ disk \in [Paths -> {<<>>}]
    /\ head = disk
    /\ suggestions = <<>>
    /\ mode = "all"
    /\ aiProvider = FALSE
    /\ githubClient = TRUE
    /\ pc = "done"
    /\ remaining = <<>>
    /\ applied = 0
    /\ failed = 0
    /\ attempted = <<>>
    /\ last = NoAttempt
    /\ aiCalls = 0
    /\ artifacts = {}
    /\ resolved = {}
    /\ perm = [p \in Paths |-> DefaultMode]
    /\ tree = "clean"
    /\ fetches = 1
    /\ threads \in SeqsUpTo(BOOLEAN, MaxComments) \ {<<>>}
    /\ requests = <<>>
    /\ args = <<>>
    /\ resolveAll = FALSE
    /\ resolveUnresolve = FALSE
    /\ resolveComment = FALSE
    /\ stdin = <<>>
    /\ rpc = "none"
    /\ commentID = 0
    /\ unresolvedComments = <<>>
    /\ successCount = 0
    /\ errorCount = 0
    /\ prompts = <<>>
    /\ collapsedFiles = FALSE
    /\ reviewComments = <<threads>>
    /\ selectionModel =
         Select(buildCommentTree(1, Len(threads)), FALSE, <<threads>>)
    /\ cmds = <<>>
    /\ msgs = <<>>
    /\ editor = 0
    /\ tmpFiles = <<>>
    /\ callbacks = <<>>
    /\ hung = FALSE

\* moving in the list: the cursor keys, the text filter, hiding resolved
\* comments, collapsing the file
NextNavigate ==
    \/ KeyDown
    \/ KeyUp
    \/ KeySlash
    \/ KeyFilterText
    \/ KeyEnter
    \/ KeyEsc
    \/ KeyHideResolved
    \/ UpdateLoadDetail

SpecNavigate == InitBrowse /\ [][NextNavigate]_vars

\* the browse command of a pull request with one comment
InitOneComment == InitBrowse /\ Len(threads) = 1

\* a reply and a text without a reply
ReplyTexts == {<<"a">>, <<"#">>}

\* replying from the selector: the editor actions, the editor on the source
\* file, the editor process and its completion
NextEditor ==
    \/ KeyDown
    \/ KeyRight
    \/ KeyEditorAction({2, 3, 4})
    \/ KeyEditFile
    \/ ExecProcess
    \/ EditorExit(ReplyTexts)
    \/ UpdateEditorFinished

SpecEditor == InitOneComment /\ [][NextEditor]_vars

\* the selector while the editor of an editor action on the comment runs:
\* the cursor is on the comment, the temp file holds the initial content and
\* the template
InitEditing ==
    /\ disk \in [Paths -> {<<>>}]
    /\ head = disk
    /\ suggestions = <<>>
    /\ mode = "all"
    /\ aiProvider = FALSE
    /\ githubClient = TRUE
    /\ pc = "done"
    /\ remaining = <<>>
    /\ applied = 0
    /\ failed = 0
    /\ attempted = <<>>
    /\ last = NoAttempt
    /\ aiCalls = 0
    /\ artifacts = {}
    /\ resolved = {}
    /\ perm = [p \in Paths |-> DefaultMode]
    /\ tree = "clean"
    /\ fetches = 1
    /\ threads = <<FALSE>>
    /\ requests = <<>>
    /\ args = <<>>
    /\ resolveAll = FALSE
    /\ resolveUnresolve = FALSE
    /\ resolveComment = FALSE
    /\ stdin = <<>>
    /\ rpc = "none"
    /\ commentID = 0
    /\ unresolvedComments = <<>>
    /\ successCount = 0
    /\ errorCount = 0
    /\ prompts = <<>>
    /\ collapsedFiles = FALSE
    /\ reviewComments = <<threads>>
    /\ \E actionNum \in {2, 3, 4} :
         /\ selectionModel =
              [Select(buildCommentTree(1, 1), FALSE, <<threads>>) EXCEPT
                 !.list.cursor = 1,
                 !.pendingEditorItem = BrowseItem("comment", 1, 1),
                 !.pendingEditorTmpFile = 1,
                 !.pendingEditorAction = actionNum]
         /\ tmpFiles = <<TmpFile(TRUE, InitialContent(actionNum) \o Template)>>
    /\ cmds = <<>>
    /\ msgs = <<>>
    /\ editor = 1
    /\ callbacks = <<>>
    /\ hung = FALSE

\* the editor ends with any text and its completion is handled
NextEditing ==
    \/ EditorExit(EditorTexts)
    \/ UpdateEditorFinished

SpecEditing == InitEditing /\ [][NextEditing]_vars

\* refreshing and resolving in the selector, in every view; the editor is
\* that of the R key and the replies have one text
NextRefresh ==
    \/ KeyDown
    \/ KeyRefresh
    \/ RefreshItems
    \/ UpdateRefreshFinished
    \/ KeyResolve
    \/ KeyRight
    \/ KeyHelp
    \/ KeyEditorAction({2})
    \/ ExecProcess
    \/ EditorExit({<<"a">>})
    \/ UpdateEditorFinished

SpecRefresh == InitOneComment /\ [][NextRefresh]_vars

(***************************************************************************)
(* Vocabulary of the properties, stated without the applier's operators    *)
(***************************************************************************)
\* the block occurs in lines at the 0-based index i
OccursAt(block, lines, i) ==
    /\ i >= 0
    /\ i + Len(block) <= Len(lines)
    /\ SubSeq(lines, i + 1, i + Len(block)) = block

Occurs(block, lines) == \E i \in 0..Len(lines) : OccursAt(block, lines, i)

AddedOf(hunk) ==
    LET adds == {k \in 1..Len(hunk.body) : hunk.body[k].kind = "add"}
    IN  [k \in 1..Cardinality(adds) |->
            hunk.body[CHOOSE m \in adds :
                        Cardinality({n \in adds : n <= m}) = k].text]

\* the 0-based new-file line of the hunk's first Add line (header parsed)
HunkPosition(hunk) ==
    LET adds == {k \in 1..Len(hunk.body) : hunk.body[k].kind = "add"}
        first == CHOOSE k \in adds : \A m \in adds : k <= m
    IN  hunk.newStart
        + Cardinality({m \in 1..(first - 1) : hunk.body[m].kind = "ctx"}) - 1

PositionVerified(hunk, lines) ==
    /\ hunk.hdr = "ok"
    /\ AddedOf(hunk) # <<>>
    /\ OccursAt(AddedOf(hunk), lines, HunkPosition(hunk))

\* the suggestion text split on line breaks after stripping one trailing one
SuggestionLinesOf(code) ==
    Split(IF Len(code) > 0 /\ code[Len(code)] = NL
          THEN SubSeq(code, 1, Len(code) - 1) ELSE code)

\* the most recent attempt was a call of applySuggestion
Direct == last.via = "direct"
IOErrors == {"ReadError", "WriteError"}
LastComment == suggestions[last.id]
Added == AddedOf(LastComment.DiffHunk)
ReadLines == Split(last.read)

\* os.WriteFile was reached by the attempt
WriteReached == last.err \in {"none", "WriteError"}

\* fileLines[0:target] + suggestionLines + fileLines[target+len(addedLines):]
Replaced ==
    SubSeq(ReadLines, 1, last.target)
    \o SuggestionLinesOf(LastComment.SuggestedCode)
    \o SubSeq(ReadLines, last.target + Len(Added) + 1, Len(ReadLines))

\* the matched block ends on the last element of the split file
ReachesLastLine == last.target + Len(Added) = Len(ReadLines)

EndsWithNL(content) == Len(content) > 0 /\ content[Len(content)] = NL

\* joined with line terminators, the sequence ends with a terminator
JoinedEndsWithNL(lines) == Len(lines) >= 2 /\ lines[Len(lines)] = <<>>

\* the smallest 0-based index at which the block occurs
FirstOccurrence(block, lines) ==
    CHOOSE i \in 0..Len(lines) :
        /\ OccursAt(block, lines, i)
        /\ \A m \in 0..(i - 1) : ~OccursAt(block, lines, m)

\* C1: a non-empty added block that occurs nowhere in the file that was read
\* makes the apply fail with NotFound and leaves the file's bytes as they were
C1_NotFoundLeavesFile ==
    (/\ Direct
     /\ last.err # "ReadError"
     /\ Added # <<>>
     /\ ~Occurs(Added, ReadLines))
    => (/\ last.err = "NotFound"
        /\ last.after = last.read
        /\ disk[LastComment.Path] = last.read)

\* two added lines, the first of which is in the file, the pair is not
C1_Witness ==
    /\ Direct
    /\ last.err = "NotFound"
    /\ Len(Added) = 2
    /\ Len(ReadLines) >= 3
    /\ Occurs(<<Added[1]>>, ReadLines)

\* C2: the file is written only if, in the content read by that call, the
\* lines at [target, target+len(addedLines)) equal addedLines; a call that
\* ends in ContentMismatch has written nothing
C2_NoPartiallyVerifiedWrite ==
    Direct =>
        /\ WriteReached =>
              (Added # <<>> /\ OccursAt(Added, ReadLines, last.target))
        /\ ~WriteReached => last.after = last.read
        /\ last.err = "ContentMismatch" => last.after = last.read

\* a written two-line block whose first line alone also occurs elsewhere
C2_Witness ==
    /\ Direct
    /\ last.err = "none"
    /\ Len(Added) = 2
    /\ last.after # last.read
    /\ \E i \in 0..Len(ReadLines) :
          /\ i # last.target
          /\ OccursAt(<<Added[1]>>, ReadLines, i)
          /\ ~OccursAt(Added, ReadLines, i)

\* C3 as stated: after a successful apply the file's lines are exactly
\* fileLines[0:target] + suggestionLines + fileLines[target+len(addedLines):]
C3_Original ==
    (Direct /\ last.err = "none") => Split(last.after) = Replaced

\* C3 amended: the file's lines are that sequence, followed by one more
\* empty line when the file read ended with a terminator and the sequence,
\* joined, does not (the terminator appended to restore the convention)
C3_ReplacesOnlyBlock ==
    (Direct /\ last.err = "none") =>
        Split(last.after) =
            IF EndsWithNL(last.read) /\ ~JoinedEndsWithNL(Replaced)
            THEN Replaced \o << <<>> >>
            ELSE Replaced

\* a one-line block in the middle of the file replaced by two lines
C3_Witness ==
    /\ Direct
    /\ last.err = "none"
    /\ last.target >= 1
    /\ ~ReachesLastLine
    /\ Len(SuggestionLinesOf(LastComment.SuggestedCode)) = 2
    /\ Len(Added) = 1
    /\ last.after # last.read

\* C4: content search decides only when position mapping gave no verified
\* match; then a block that occurs anywhere makes the apply succeed, at the
\* smallest index where the block occurs
C4_ContentSearchFirstMatch ==
    Direct =>
        /\ (last.strategy = "content" /\ WriteReached) =>
              /\ ~PositionVerified(LastComment.DiffHunk, ReadLines)
              /\ last.target = FirstOccurrence(Added, ReadLines)
        /\ (/\ Added # <<>>
            /\ ~PositionVerified(LastComment.DiffHunk, ReadLines)
            /\ Occurs(Added, ReadLines)
            /\ last.err \notin IOErrors) =>
              /\ last.err = "none"
              /\ last.strategy = "content"
              /\ last.target = FirstOccurrence(Added, ReadLines)

\* the predicted position is in the file but holds other lines, and the
\* block occurs twice elsewhere: the first occurrence is taken
C4_Witness ==
    /\ Direct
    /\ last.err = "none"
    /\ last.strategy = "content"
    /\ LastComment.DiffHunk.hdr = "ok"
    /\ HunkPosition(LastComment.DiffHunk) + Len(Added) <= Len(ReadLines)
    /\ \E i \in 0..Len(ReadLines) :
          i > last.target /\ OccursAt(Added, ReadLines, i)

\* C5: a position-mapped target whose lines equal addedLines is the place
\* replaced, even when the same block also occurs earlier in the file
C5_PositionMapping ==
    (/\ Direct
     /\ PositionVerified(LastComment.DiffHunk, ReadLines)
     /\ last.err \notin IOErrors)
    => /\ last.err = "none"
       /\ last.strategy = "position"
       /\ last.target = HunkPosition(LastComment.DiffHunk)
       /\ Split(last.after)[HunkPosition(LastComment.DiffHunk) + 1] =
             SuggestionLinesOf(LastComment.SuggestedCode)[1]

\* the block after a context line, with an identical block before it
C5_Witness ==
    /\ Direct
    /\ last.err = "none"
    /\ last.strategy = "position"
    /\ LastComment.DiffHunk.body[1].kind = "ctx"
    /\ last.target = LastComment.DiffHunk.newStart
    /\ FirstOccurrence(Added, ReadLines) < last.target
    /\ last.after # last.read

C10_NoAddedLinesFails ==
    (Direct /\ Added = <<>> /\ last.err # "ReadError") =>
        /\ last.err = "NoAddedLines"
        /\ last.strategy = "none"
        /\ last.target = -1
        /\ last.after = last.read
        /\ disk[LastComment.Path] = last.read

\* a parsed hunk of context and removed lines over a non-empty file
C10_Witness ==
    /\ Direct
    /\ last.err = "NoAddedLines"
    /\ LastComment.DiffHunk.hdr = "ok"
    /\ Len(LastComment.DiffHunk.body) = 2
    /\ Len(last.read) >= 2

(***************************************************************************)
(* Properties of a batch                                                   *)
(***************************************************************************)
Ids(n) == [k \in 1..n |-> k]

\* C6: ApplyAll and ApplyAllWithAI attempt the suggestions in input order,
\* each once, whatever the earlier outcomes; at the end every suggestion has
\* been attempted and applied + failed is their number.  The only early exit
\* is ApplyAllWithAI's guard, which returns before the first suggestion.
C6_BatchNeverAborts ==
    /\ attempted \o remaining = Ids(Len(suggestions))
    /\ applied + failed = Len(attempted)
    /\ (pc = "run") => remaining # <<>>
    /\ (pc = "done") =>
          /\ attempted = Ids(Len(suggestions))
          /\ applied + failed = Len(suggestions)
    /\ (pc = "error") => (mode = "aiauto" /\ ~aiProvider /\ attempted = <<>>)

\* a finished batch whose last suggestion was applied after a failure
C6_Witness ==
    /\ pc = "done"
    /\ Len(suggestions) = MaxRun
    /\ failed >= 1
    /\ last.id = Len(suggestions)
    /\ Succeeded(last.err)
    /\ applied = 1

\* C7: each call of applySuggestion matches against the content the earlier
\* applies of the run left in the file: a block present in that content is
\* found there and replaced there, wherever the hunk placed it
C7_MatchSeesEarlierWrites ==
    [][(mode = "all" /\ attempted' # attempted) =>
          LET comment == suggestions[last'.id]
              lines == Split(disk[comment.Path])
              added == AddedOf(comment.DiffHunk)
          IN  (/\ added # <<>>
               /\ Occurs(added, lines)
               /\ last'.err \notin IOErrors)
              => /\ last'.err = "none"
                 /\ OccursAt(added, lines, last'.target)
                 /\ Split(disk'[comment.Path])[last'.target + 1] =
                       SuggestionLinesOf(comment.SuggestedCode)[1]]_vars

\* the second suggestion's block sat at its hunk position when the run
\* started; the first apply moved it, and it is found where it now is
C7_Witness ==
    /\ mode = "all"
    /\ applied = 2
    /\ last.id = 2
    /\ last.err = "none"
    /\ suggestions[1].Path = suggestions[2].Path
    /\ PositionVerified(LastComment.DiffHunk, Split(head[LastComment.Path]))
    /\ last.strategy = "content"
    /\ last.target > HunkPosition(LastComment.DiffHunk)
    /\ AddedOf(suggestions[1].DiffHunk) # AddedOf(suggestions[2].DiffHunk)
    /\ Len(Split(last.read)) > Len(Split(head[LastComment.Path]))

\* C8: an attempt that fails, is cancelled or is discarded leaves the file as
\* the suggestions applied before it left it (a failed os.WriteFile and a
\* failed git checkout aside)
C8_FailureKeepsEarlierApplies ==
    [][(/\ attempted' # attempted
        /\ applied >= 1
        /\ ~Succeeded(last'.err)
        /\ last'.err \notin {"WriteError", "RevertFailed"})
       => disk' = disk]_vars

(***************************************************************************)
(* Properties of the failure paths                                         *)
(***************************************************************************)
\* C11: a hunk whose header does not parse never aborts the apply: the added
\* block is searched by content, the suggestion is applied at the block's
\* first occurrence when it occurs in the file read, and the only failure
\* otherwise is NotFound (read and write errors aside)
C11_MalformedHeaderFallsBack ==
    (/\ Direct
     /\ LastComment.DiffHunk.hdr = "malformed"
     /\ Added # <<>>
     /\ last.err \notin IOErrors)
    => IF Occurs(Added, ReadLines)
       THEN /\ last.err = "none"
            /\ last.strategy = "content"
            /\ last.target = FirstOccurrence(Added, ReadLines)
            /\ OccursAt(SuggestionLinesOf(LastComment.SuggestedCode),
                        Split(last.after), last.target)
       ELSE /\ last.err = "NotFound"
            /\ last.after = last.read

\* a malformed hunk whose two-line block is found after the file's first line
C11_Witness ==
    /\ Direct
    /\ LastComment.DiffHunk.hdr = "malformed"
    /\ last.err = "none"
    /\ Len(Added) = 2
    /\ last.target >= 1
    /\ last.after # last.read

\* a malformed hunk whose block is absent: the ordinary NotFound
C11_WitnessNotFound ==
    /\ Direct
    /\ LastComment.DiffHunk.hdr = "malformed"
    /\ Added # <<>>
    /\ last.err = "NotFound"

\* C12: a direct apply that fails with ContentMismatch or with NotFound has
\* left the diagnostic file named from the comment's id
\* (/tmp/gh-prreview-mismatch-<id>.diff) when it returns
C12_ArtifactOnMismatchOrNotFound ==
    (Direct /\ last.err \in {"ContentMismatch", "NotFound"})
    => <<"mismatch", last.id>> \in artifacts

\* the diagnostic file of the most recent attempt: the mismatch diff of a
\* direct apply, the patch file of applyWithAI
LastArtifact == <<IF last.via = "ai" THEN "ai-patch" ELSE "mismatch", last.id>>

\* C13: when the diagnostic file of a failed attempt could not be written,
\* the attempt still fails with its own reason (content mismatch, rejected
\* patch) and the error it returns names no diagnostic file
C13_ArtifactWriteFailureDegrades ==
    (/\ last.err \in {"ContentMismatch", "PatchApplyError"}
     /\ LastArtifact \notin artifacts)
    => ~last.pathNamed

\* the direct strategies failed: neither position mapping nor content
\* search found the block
StrategiesFailed(err) == err \in {"NotFound", "ContentMismatch", "OutOfBounds"}

\* C14: with a provider configured, a suggestion for which position mapping
\* and content search have both failed is handed to the AI provider
C14_AIAfterDirectFailure ==
    [][(/\ attempted' # attempted
        /\ aiProvider
        /\ last'.via = "direct"
        /\ StrategiesFailed(last'.err))
       => aiCalls' > aiCalls]_vars

(***************************************************************************)
(* Properties of the AI path                                               *)
(***************************************************************************)
\* the diagnostic files the step left
NewArtifacts == artifacts' \ artifacts

C16_ResolveOnlyAfterApply ==
    [][/\ resolved' # resolved =>
             (attempted' # attempted /\ last'.resolveCalled
              /\ resolved' = resolved \cup {last'.id})
       /\ attempted' # attempted =>
             /\ last'.resolveCalled =>
                   /\ Succeeded(last'.err)
                   /\ mode # "all"
                   /\ githubClient
                   /\ suggestions[last'.id].ThreadID
                   /\ ~suggestions[last'.id].IsResolved
             /\ Succeeded(last'.err) =>
                   /\ applied' = applied + 1
                   /\ failed' = failed
                   /\ disk'[suggestions[last'.id].Path] = last'.after
             /\ ~Succeeded(last'.err) =>
                   (applied' = applied /\ failed' = failed + 1)]_vars

\* a direct apply that changed the file and was counted, although
\* ResolveThread was called and failed
C16_Witness ==
    /\ mode = "interactive"
    /\ Direct
    /\ last.err = "none"
    /\ last.resolveCalled
    /\ resolved = {}
    /\ applied = 1
    /\ disk[LastComment.Path] = last.after
    /\ last.after # last.read

(***************************************************************************)
(* Properties of the outdated flag                                         *)
(***************************************************************************)
\* the same comment with the other value of IsOutdated
FlipOutdated(c) == WithOutdated(c, ~c.IsOutdated)

\* what an attempt did: its error, its target and the content it left
Did(a) == <<a.err, a.target, a.strategy, a.content>>

\* C17: in every mode an attempt on a comment does what an attempt on the
\* same comment with the other value of IsOutdated does on the same file:
\* same error, same target, same resulting content; apart from read and
\* write errors a direct apply has one outcome, and it is that of the
\* comment with the flag flipped
C17_OutdatedIsAdvisory ==
    [][attempted' # attempted =>
          LET c == suggestions[last'.id]
              done == <<last'.err, last'.target, last'.strategy, last'.after>>
              flipped ==
                  IF last'.via = "direct" THEN DirectAttempts(FlipOutdated(c))
                  ELSE AIAttempts(FlipOutdated(c), mode = "aiauto",
                                  IF mode = "aiauto" THEN PatchResults
                                  ELSE PickContents)
          IN  /\ \E a \in flipped : Did(a) = done
              /\ (last'.via = "direct" /\ last'.err \notin IOErrors) =>
                    \A a \in flipped : a.err \notin IOErrors => Did(a) = done]_vars

\* a comment flagged as outdated whose suggestion was applied to the file
C17_Witness ==
    /\ Direct
    /\ LastComment.IsOutdated
    /\ last.err = "none"
    /\ applied = 1
    /\ last.after # last.read


(***************************************************************************)
(* Properties of the apply command                                         *)
(***************************************************************************)
\* the lines a hunk header announces for a side of the diff
RangeOf(hunk, side) ==
    IF side = "Right" THEN hunk.newStart..(hunk.newStart + hunk.newCount - 1)
    ELSE hunk.oldStart..(hunk.oldStart + hunk.oldCount - 1)

\* the line of a comment on its side of the diff
LineOf(c) == IF c.DiffSide = "Right" THEN c.Line ELSE c.OriginalLine

\* C18: a fetched comment is flagged outdated exactly when its hunk parses
\* and the header's range for the comment's side (the new-file range on Right,
\* the old-file range on Left) does not contain the comment's line; so the
\* flag is false for an empty hunk and for a hunk that does not parse
C18_OutdatedIffNotCovered ==
    \A k \in 1..Len(suggestions) :
        suggestions[k].IsOutdated
          <=> /\ suggestions[k].DiffHunk.hdr = "ok"
              /\ LineOf(suggestions[k])
                   \notin RangeOf(suggestions[k].DiffHunk, suggestions[k].DiffSide)

\* the comment at line 20 on Right of @@ -10,3 +10,5 @@ was fetched and flagged
C18_Witness ==
    \E k \in 1..Len(suggestions) :
        /\ suggestions[k].DiffHunk = ExampleHunk
        /\ suggestions[k].DiffSide = "Right"
        /\ suggestions[k].Line = 20
        /\ suggestions[k].IsOutdated

\* the comment at line 12 on Right of the same hunk was fetched and not flagged
C18_WitnessCovered ==
    \E k \in 1..Len(suggestions) :
        /\ suggestions[k].DiffHunk = ExampleHunk
        /\ suggestions[k].DiffSide = "Right"
        /\ suggestions[k].Line = 12
        /\ ~suggestions[k].IsOutdated

\* a comment whose hunk does not parse was fetched and not flagged, although
\* no range covers its line
C18_WitnessUnparsed ==
    \E k \in 1..Len(suggestions) :
        /\ suggestions[k].DiffHunk.hdr = "malformed"
        /\ ~suggestions[k].IsOutdated

\* a comment on Left was flagged although the new-file range covers its line
C18_WitnessLeft ==
    \E k \in 1..Len(suggestions) :
        /\ suggestions[k].DiffSide = "Left"
        /\ suggestions[k].IsOutdated
        /\ suggestions[k].Line \in RangeOf(suggestions[k].DiffHunk, "Right")

\* C19: while git status reports a change or fails, nothing was fetched, no
\* AI provider was called and no suggestion was attempted, and the only step
\* the command takes ends it with an error, leaving every file, the fetch
\* count, the AI call count and the diagnostic files as they are
C19_DirtyTreeStopsFirst ==
    [][tree # "clean"
         => /\ fetches = 0 /\ aiCalls = 0 /\ attempted = <<>>
            /\ pc' = "error"
            /\ UNCHANGED <<disk, perm, fetches, aiCalls, attempted, artifacts,
                           suggestions, resolved>>]_vars

\* the command ended with an error on a tree with an uncommitted change
C19_Witness ==
    /\ tree = "dirty"
    /\ disk # head
    /\ pc = "error"
    /\ fetches = 0

\* the command ended with an error because git status failed
C19_WitnessGitFails ==
    /\ tree = "error"
    /\ pc = "error"
    /\ fetches = 0

(***************************************************************************)
(* Properties of the suggestion text                                       *)
(***************************************************************************)
\* the body has a first suggestion block: it opens at i, closes at j, and no
\* block opens before i
FirstBlock(body, i, j) ==
    /\ 1 <= i /\ i + 1 < j /\ j <= Len(body)
    /\ body[i] = OPEN /\ body[i + 1] = NL
    /\ body[j] \in {OPEN, FENCE}
    /\ \A k \in (i + 2)..(j - 1) : body[k] \notin {OPEN, FENCE}
    /\ \A k \in 1..(i - 1) :
          ~(/\ body[k] = OPEN
            /\ k + 1 <= Len(body) /\ body[k + 1] = NL
            /\ \E n \in (k + 2)..Len(body) : body[n] \in {OPEN, FENCE})

\* the text between the block's opening line and its closing fence, without
\* the line break before the fence
TextBetween(body, i, j) ==
    IF body[j - 1] = NL /\ j - 1 > i + 1 THEN SubSeq(body, i + 2, j - 2)
    ELSE SubSeq(body, i + 2, j - 1)

\* C21: the suggested code of every fetched suggestion is the inner text of
\* the first suggestion block of its body, whatever follows that block; and
\* what a successful apply puts in place of the matched block is that text
C21_FirstBlockWins ==
    /\ \A n \in 1..Len(suggestions) :
          \E i, j \in 1..Len(suggestions[n].Body) :
              /\ FirstBlock(suggestions[n].Body, i, j)
              /\ suggestions[n].SuggestedCode
                   = TextBetween(suggestions[n].Body, i, j)
    /\ (Direct /\ last.err = "none")
          => \E i, j \in 1..Len(LastComment.Body) :
                /\ FirstBlock(LastComment.Body, i, j)
                /\ OccursAt(SuggestionLinesOf(TextBetween(LastComment.Body,
                                                          i, j)),
                            Split(last.after), last.target)

\* a suggestion whose body holds two blocks with different texts was applied
C21_Witness ==
    /\ Direct
    /\ last.err = "none"
    /\ \E i, j, k, l \in 1..Len(LastComment.Body) :
          /\ FirstBlock(LastComment.Body, i, j)
          /\ j < k
          /\ FirstBlock(SubSeq(LastComment.Body, k, Len(LastComment.Body)),
                        1, l - k + 1)
          /\ TextBetween(LastComment.Body, k, l)
               # TextBetween(LastComment.Body, i, j)
          /\ LastComment.SuggestedCode = TextBetween(LastComment.Body, i, j)

(***************************************************************************)
(* Properties of the parsed hunk                                           *)
(***************************************************************************)
\* the parsed lines of the hunk of suggestion n
ParsedLines(n) == ParseDiffHunk(suggestions[n].DiffHunk).Lines

\* C25: in the parsed lines of every hunk whose header parses, the new-file
\* numbers never decrease from an Add or Context line to a later one, the
\* old-file numbers never decrease from a Remove or Context line to a later
\* one, an Add line has no old number and a Remove line has no new number
C25_NumbersMonotone ==
    \A n \in 1..Len(suggestions) :
        suggestions[n].DiffHunk.hdr = "ok"
          => /\ Len(ParsedLines(n)) = Len(suggestions[n].DiffHunk.body)
             /\ \A i, j \in 1..Len(ParsedLines(n)) :
                   /\ (i < j /\ ParsedLines(n)[i].Type \in {"add", "ctx"}
                             /\ ParsedLines(n)[j].Type \in {"add", "ctx"})
                        => ParsedLines(n)[i].NewLineNumber
                             <= ParsedLines(n)[j].NewLineNumber
                   /\ (i < j /\ ParsedLines(n)[i].Type \in {"rem", "ctx"}
                             /\ ParsedLines(n)[j].Type \in {"rem", "ctx"})
                        => ParsedLines(n)[i].OldLineNumber
                             <= ParsedLines(n)[j].OldLineNumber
             /\ \A i \in 1..Len(ParsedLines(n)) :
                   /\ ParsedLines(n)[i].Type = "add"
                        => ParsedLines(n)[i].OldLineNumber = 0
                   /\ ParsedLines(n)[i].Type = "rem"
                        => ParsedLines(n)[i].NewLineNumber = 0

\* an attempt on a hunk in which a Remove line is followed by an Add line
\* whose new number is the hunk's start
C25_Witness ==
    /\ Direct
    /\ LastComment.DiffHunk.hdr = "ok"
    /\ Len(ParsedLines(last.id)) = 2
    /\ ParsedLines(last.id)[1].Type = "rem"
    /\ ParsedLines(last.id)[2].Type = "add"
    /\ ParsedLines(last.id)[2].NewLineNumber = LastComment.DiffHunk.newStart
    /\ ParsedLines(last.id)[1].OldLineNumber = LastComment.DiffHunk.oldStart

(***************************************************************************)
(* Properties of a repeated apply                                          *)
(***************************************************************************)
\* the step is a direct attempt on a suggestion equal to the one whose direct
\* attempt just succeeded
AppliedAgain ==
    /\ Direct
    /\ last.err = "none"
    /\ attempted' # attempted
    /\ last'.via = "direct"
    /\ suggestions[last'.id] = LastComment

\* C27 as stated: a direct attempt on a suggestion that was just applied
\* successfully leaves the file as it is, unless writing the file fails
C27_ApplyIdempotent ==
    [][(AppliedAgain /\ last'.err # "WriteError") => disk' = disk]_vars

\* C27 amended: a direct attempt on a suggestion that was just applied
\* successfully fails and leaves the file as it is whenever the hunk's Add
\* lines no longer occur in it as a block
C27_ApplyIdempotentWhenBlockGone ==
    [][(AppliedAgain /\ ~Occurs(Added, Split(disk[LastComment.Path])))
         => /\ disk' = disk
            /\ last'.err \in {"NotFound", "ReadError"}]_vars

\* the suggestion was applied, then attempted again and not found
C27_Witness ==
    /\ Len(attempted) = 2
    /\ suggestions[1] = suggestions[2]
    /\ applied = 1
    /\ Direct
    /\ last.id = 2
    /\ last.err = "NotFound"
    /\ ~Occurs(Added, Split(disk[LastComment.Path]))
    /\ disk # head

(***************************************************************************)
(* Properties of the selector's cursor keys                                *)
(***************************************************************************)
\* a visible item of the list can be selected
SomeSelectable ==
    \E i \in 1..Len(VisibleItems(selectionModel.list)) :
        ~IsSkippable(VisibleItems(selectionModel.list)[i])

\* C26: an up or down key handled in the list view ends after finitely many
\* cursor moves, whatever the visible list is, and leaves the cursor on an
\* item that is not skippable whenever the list shows one
C26_CursorKeysTerminate ==
    [][((KeyDown \/ KeyUp) /\ View = "list")
          => /\ ~hung'
             /\ SomeSelectable =>
                  /\ SelectedItem(selectionModel'.list) # NoItem
                  /\ ~IsSkippable(SelectedItem(selectionModel'.list))]_vars

(***************************************************************************)
(* Properties of the selector's refresh                                    *)
(***************************************************************************)
\* the refreshes started and not yet handled by Update: the commands that
\* have not run and the completions that have not arrived
RefreshesInFlight ==
    Cardinality({i \in 1..Len(cmds) : cmds[i].type = "refresh"})
        + Cardinality({i \in 1..Len(msgs) :
                          msgs[i].type = "refreshFinishedMsg"})

\* C28: at most one refresh is in flight, and the pending flag is set
\* exactly while one is: a refresh key pressed while it is set starts
\* nothing, and every completion, in whichever view it arrives, clears it
C28_OneRefreshInFlight ==
    /\ RefreshesInFlight <= 1
    /\ selectionModel.refreshing <=> RefreshesInFlight = 1

\* a completion is about to arrive while the confirmation message shows
C28_Witness ==
    /\ selectionModel.refreshing
    /\ View = "confirmation"
    /\ \E i \in 1..Len(msgs) : msgs[i].type = "refreshFinishedMsg"

\* the resolved state the model's items hold for a thread
Shown(model, objects, thread) ==
    LET of(its) == objects[its[1].Gen][thread]
    IN  of(SelectSeq(model.items,
                     LAMBDA item : item.Type = "comment"
                                   /\ item.Thread = thread))

\* C29: when a refresh completion is processed, a thread that the list shows
\* in the state it has on GitHub, as it does after the user has resolved or
\* unresolved it, is still shown in that state
C29_ResolveSurvivesRefresh ==
    [][UpdateRefreshFinished
         => \A t \in 1..Len(threads) :
              Shown(selectionModel, reviewComments, t) = threads[t]
                 => Shown(selectionModel', reviewComments', t) = threads'[t]]_vars

(***************************************************************************)
(* Properties of the selector's API calls                                  *)
(***************************************************************************)
\* C23: after startup the comments are fetched again only by the command of
\* the refresh key: opening the detail view of a comment fetches nothing
C23_DetailFetchesNothing ==
    [][fetches' # fetches => RefreshItems]_vars

(***************************************************************************)
(* Properties of the selector's editor                                     *)
(***************************************************************************)
\* a line that is neither blank nor starts with '#'
IsText(line) == TrimSpace(line) # <<>> /\ Head(line) # "#"

\* the lines up to the last line of text, joined and trimmed; empty when no
\* line is text
KeptText(content) ==
    LET upTo(lines, texts) ==
            IF texts = {} THEN <<>>
            ELSE TrimSpace(Join(SubSeq(lines, 1,
                     CHOOSE k \in texts : \A j \in texts : j <= k)))
        in(lines) == upTo(lines, {k \in 1..Len(lines) : IsText(lines[k])})
    IN  in(Split(content))

\* C24: the sanitized text of an editor content is its lines up to the last
\* line that is neither blank nor starts with '#', unchanged, with the
\* surrounding whitespace trimmed; it is empty when there is no such line
C24_SanitizeKeepsBody ==
    /\ \A i \in 1..Len(callbacks) :
         callbacks[i].body = KeptText(callbacks[i].content)
    /\ \A k \in 1..Len(tmpFiles) :
         tmpFiles[k].exists =>
            SanitizeEditorContent(tmpFiles[k].content)
                = KeptText(tmpFiles[k].content)

\* a reply that begins with a heading line and ends with a '#' line has been
\* passed on with the heading and without the last line
C24_Witness ==
    \E i \in 1..Len(callbacks) :
        /\ Head(callbacks[i].content) = "#"
        /\ callbacks[i].content[Len(callbacks[i].content)] = "#"
        /\ Head(callbacks[i].body) = "#"
        /\ Len(callbacks[i].body) < Len(callbacks[i].content)

\* the calls of the completion callbacks are for different temp files, with
\* a body that is not empty, after an editor that ended without error
CallbacksOnce ==
    /\ Len(callbacks) <= Len(tmpFiles)
    /\ \A i \in 1..Len(callbacks) :
         /\ callbacks[i].body # <<>>
         /\ ~callbacks[i].err
         /\ callbacks[i].tmpFile \in 1..Len(tmpFiles)
         /\ \A j \in 1..Len(callbacks) :
              callbacks[i].tmpFile = callbacks[j].tmpFile => i = j

\* C30: the completion callback is called at most once for an editor
\* session, never after an editor error and never with an empty sanitized
\* body, and every editorFinishedMsg leaves the pending temp file and the
\* pending action cleared
C30_CallbackAtMostOnce ==
    /\ []CallbacksOnce
    /\ [][UpdateEditorFinished
            => /\ selectionModel'.pendingEditorTmpFile = 0
               /\ selectionModel'.pendingEditorAction = 0]_vars

\* after a callback, with nothing pending, another editorFinishedMsg is on
\* its way
C30_Witness ==
    /\ callbacks # <<>>
    /\ selectionModel.pendingEditorTmpFile = 0
    /\ \E i \in 1..Len(msgs) : msgs[i].type = "editorFinishedMsg"

(***************************************************************************)
(* Properties of resolve --all                                             *)
(***************************************************************************)
\* the exchanges sent for a thread that resolve or unresolve it
MutationsOf(thread) ==
    {k \in 1..Len(requests) : /\ requests[k].thread = thread
                              /\ requests[k].kind \in {"resolve", "unresolve"}}

\* the threads that were unresolved when the command fetched them
UnresolvedAtFetch ==
    {t \in 1..Len(threads) :
        \/ ~threads[t]
        \/ \E k \in MutationsOf(t) : requests[k].kind = "resolve"
                                     /\ requests[k].ok}

\* C22: resolve --all without a positional argument asks for no comment ID,
\* and once the user has confirmed and the command has ended, every thread
\* that was unresolved has been sent exactly one resolve request (unresolve
\* with --unresolve), and the successes and failures counted add up to the
\* number of those threads
C22_ResolveAllNeedsNoId ==
    (resolveAll /\ args = <<>>) =>
        /\ \A k \in 1..Len(prompts) : prompts[k] # "id"
        /\ (rpc = "done" /\ \E k \in 1..Len(prompts) : prompts[k] = "confirm")
              => /\ \A t \in UnresolvedAtFetch :
                      /\ Cardinality(MutationsOf(t)) = 1
                      /\ \A k \in MutationsOf(t) :
                           requests[k].kind = IF resolveUnresolve
                                              THEN "unresolve" ELSE "resolve"
                 /\ successCount + errorCount = Cardinality(UnresolvedAtFetch)

(***************************************************************************)
(* Properties of the written file                                          *)
(***************************************************************************)
\* C20: a successful direct apply overwrites the file at the comment's path
\* with the new content and leaves the permission bits of every file as they
\* were; the file exists when it is written, so its bits are known and the
\* 0644 passed to os.WriteFile is not given to it
C20_OverwriteKeepsMode ==
    [][(attempted' # attempted /\ last'.via = "direct" /\ last'.err = "none")
         => /\ disk'[suggestions[last'.id].Path] = last'.after
            /\ \A p \in Paths \ {suggestions[last'.id].Path} : disk'[p] = disk[p]
            /\ perm' = perm]_vars

\* a direct apply that changed a file whose bits are 0755, not the default
C20_Witness ==
    /\ Direct
    /\ last.err = "none"
    /\ last.after # last.read
    /\ disk[LastComment.Path] = last.after
    /\ perm[LastComment.Path] # DefaultMode

====
